---- MODULE Spec2Model ----
(***************************************************************************)
(* Model of the model-routing layer of FGO-agent:                          *)
(*   llm/router.py   ModelRouter.chat (non-streaming and streaming         *)
(*                   failover) and StreamWithMetadata,                     *)
(*   llm/monitor.py  monitor_llm_call (the call-log decorator around       *)
(*                   ModelRouter.chat),                                    *)
(*   database/db     LogDAL.get_or_create_model / LogDAL.save_log under    *)
(*                   use_async_connection.                                 *)
(* and of its query resolver:                                              *)
(*   agent/graph.py  the LangGraph state machine,                          *)
(*   agent/nodes.py  its nodes,                                            *)
(*   tools/rag       calculate_retrieval_quality.                          *)
(* and of what surrounds them:                                             *)
(*   api/main.py     process_chat_message, the WebSocket turn,             *)
(*   memory, db      save_conversation_turn and the MemoryDAL calls under  *)
(*                   use_sync_connection.                                  *)
(* Spec follows one router call; ResolverSpec follows one resolution;      *)
(* ReplaySpec follows two resolutions of the same input, one after the     *)
(* other; RegistrySpec follows concurrent completions registering their    *)
(* model; SocketSpec follows one WebSocket turn; TracedSpec follows one     *)
(* resolution with its history of node inputs and decisions; QualitySpec   *)
(* scores one list of retrieved documents; MemorySpec follows the saves    *)
(* of a session's turns; SharedSpec follows concurrent chat calls on the   *)
(* one router of the process.                                              *)
(* One router call (chat or embed) is followed from its entry to the       *)
(* outcome its caller observes.  Instance names are the positions 1..N of  *)
(* the configured list model_config['instances']; 0 stands for None.  The  *)
(* configuration is well formed: every configured instance has an entry   *)
(* in instance_model_names.                                                *)
(***************************************************************************)
EXTENDS Integers, Sequences, FiniteSets, TLC

\* Number of instances configured for the logical model.
NumInstances == 3
\* Largest number of chunks one adapter stream produces.
MaxChunks == 2
\* Largest number of documents one retrieval returns.
MaxDocs == 2
\* Number of chat completions that run concurrently.
NumWorkers == 2
\* Largest number of tokens the graph hands to the stream callback in a turn.
MaxTokens == 3
\* Number of chat calls that run concurrently on the shared router.
NumCalls == 2
\* Number of turns of the session that are saved.
MaxTurns == 3

VARIABLES
    call,             \* the router method called: "chat" or "embed"
    model_known,      \* whether self.models has the logical model
    handle,           \* public fields of the StreamWithMetadata returned
    stream,           \* the request's stream flag
    adapters,         \* self.adapters: the instances that have an adapter
    models,           \* table models: instance names that have a row
    pc,               \* position of the call
    idx,              \* position of the for loop in instance_names
    produced,         \* chunks the current adapter stream has yielded
    attempts,         \* history: adapter.chat invocations, in order
    failover_events,  \* the request's failover_events list
    last_exception,   \* router's last_exception
    metadata,         \* metadata['instance_name'] of the stream closure
    metadata_writes,  \* history: every write to the metadata dict
    delivered,        \* chunks handed to the consumer of the stream
    router_outcome,   \* how the body of ModelRouter.chat ended
    model_id,         \* model_id the monitor obtained
    handled,          \* exception caught by the wrapper's except clause
    logs,             \* table logs: persisted CallRecords
    caller_outcome,   \* what the caller of the decorated chat observes
    \* AgentState of one query resolution (src/agent/state.py) and its history
    has_query,            \* messages hold a HumanMessage with content
    node,                 \* the graph node about to run
    query_classification,
    retry_count,
    original_query,
    rewritten_query,
    retrieved_docs,
    retrieval_score,
    evaluation_result,
    evaluation_reason,
    ai_messages,          \* AIMessages appended to messages in this turn
    raised,               \* an exception left the graph
    path,                 \* history: the nodes that ran, in order
    retrievals,           \* history: retry_count and size of every retrieval
    evaluations,          \* history: every decision of rag_evaluation_node
    evaluator_calls,      \* history: chat calls made by rag_evaluation_node
    generate_calls,       \* history: chat calls made by llm_generate_node
    inputs,               \* history: what the nodes were given, in order
    decisions             \* history: the route decision after every node

\* Two resolutions of the same input, one after the other.
VARIABLES
    run,      \* 0: no such session; 1, 2: the resolution that is running
    script,   \* the inputs the first resolution was given
    trace     \* the route decisions the first resolution took

\* Concurrent completions in the monitor, each registering its model.
VARIABLES
    served,        \* per completion: the instance that served it
    worker_pc,     \* per completion: its position in get_or_create_model
    model_rows,    \* table models: rows [id, instance_name]
    returned_id,   \* per completion: what get_or_create_model returned
    log_rows       \* table logs: rows [call, model_id, status]

\* One turn of the WebSocket endpoint.
VARIABLES
    ws_pc,            \* position of process_chat_message
    connected,        \* the client is still connected
    stream_aborted,   \* the nonlocal flag of stream_token_callback
    callback_calls,   \* history: calls of stream_token_callback
    callback_raised,  \* history: an exception left stream_token_callback
    sends             \* history: every websocket.send_json attempted

\* One application of calculate_retrieval_quality.
VARIABLES
    quality_docs,     \* the scores of the documents passed, in tenths
    quality_score     \* the score returned, as a fraction, once it is

\* Concurrent chat calls on the one ModelRouter of the process.
VARIABLES
    shared_adapters,  \* self.adapters of the shared router
    c_stream,         \* per call: its stream flag
    c_pc,             \* per call: its position
    c_idx,            \* per call: position of its for loop
    c_events,         \* per call: its failover_events list
    c_metadata,       \* per call: metadata['instance_name'] of its closure
    c_attempts        \* per call, history: the instances it invoked

\* The turns of one session saved by MemoryManager.save_conversation_turn.
VARIABLES
    mem_pc,           \* position of the save in progress
    session_exists,   \* table sessions has the row of the session
    message_count,    \* sessions.message_count of that row
    stored_turns,     \* table conversations: turn numbers stored, in order
    turn_number,      \* turn_number of the save in progress
    inserted,         \* the save in progress inserted its row
    saves             \* history: per finished save, what happened and
                      \* what it returned

router_vars ==
    <<call, model_known, handle, stream, adapters, models, pc, idx, produced,
      attempts, failover_events, last_exception, metadata, metadata_writes,
      delivered, router_outcome, model_id, handled, logs, caller_outcome>>

resolver_vars ==
    <<has_query, node, query_classification, retry_count, original_query,
      rewritten_query, retrieved_docs, retrieval_score, evaluation_result,
      evaluation_reason, ai_messages, raised, path, retrievals, evaluations,
      evaluator_calls, generate_calls, inputs, decisions>>

session_vars == <<run, script, trace>>

registry_vars == <<served, worker_pc, model_rows, returned_id, log_rows>>

socket_vars == <<ws_pc, connected, stream_aborted, callback_calls,
                 callback_raised, sends>>

quality_vars == <<quality_docs, quality_score>>

shared_vars == <<shared_adapters, c_stream, c_pc, c_idx, c_events, c_metadata,
                 c_attempts>>

memory_vars == <<mem_pc, session_exists, message_count, stored_turns,
                 turn_number, inserted, saves>>

vars == <<router_vars, resolver_vars, session_vars, registry_vars, socket_vars,
          quality_vars, shared_vars, memory_vars>>

\* What a step of one component leaves alone.
outside_router == <<resolver_vars, session_vars, registry_vars, socket_vars,
                    quality_vars, shared_vars, memory_vars>>
outside_resolver == <<router_vars, session_vars, registry_vars, socket_vars,
                      quality_vars, shared_vars, memory_vars>>
outside_session == <<router_vars, registry_vars, socket_vars, quality_vars,
                     shared_vars, memory_vars>>
outside_registry == <<router_vars, resolver_vars, session_vars, socket_vars,
                      quality_vars, shared_vars, memory_vars>>
outside_socket == <<router_vars, resolver_vars, session_vars, registry_vars,
                    quality_vars, shared_vars, memory_vars>>
outside_quality == <<router_vars, resolver_vars, session_vars, registry_vars,
                     socket_vars, shared_vars, memory_vars>>
outside_shared == <<router_vars, resolver_vars, session_vars, registry_vars,
                    socket_vars, quality_vars, memory_vars>>
outside_memory == <<router_vars, resolver_vars, session_vars, registry_vars,
                    socket_vars, quality_vars, shared_vars>>

Workers == 1..NumWorkers
Calls == 1..NumCalls

\* seq is a prefix of the sequence longer.
IsPrefix(seq, longer) ==
    /\ Len(seq) <= Len(longer)
    /\ \A k \in 1..Len(seq) : seq[k] = longer[k]

Instances == 1..NumInstances

\* model_config['instances']: the configured order.
instance_names == [k \in Instances |-> k]

None == 0

----------------------------------------------------------------------------
\* Exceptions.  An adapter error is identified by the instance that raised it.
NoError == [type |-> "none", inst |-> None]
AdapterError(i) == [type |-> "adapter", inst |-> i]
DbError == [type |-> "db", inst |-> None]
\* router.py:119, 244: ValueError("未知的逻辑模型: ...")
ConfigError == [type |-> "config", inst |-> None]

\* router.py:166 / router.py:223
\*   raise Exception(f"...最后一次错误: {last_exception}") from last_exception
\* The exception object holds the message and __cause__; nothing else.
AllInstancesFailed(last) == [type |-> "all_failed", message |-> last, cause |-> last]

\* Failover events (router.py:135-139, 147-151, 158-163).
SkippedEvent(i) == [instance_name |-> i, status |-> "skipped"]
SuccessEvent(i) == [instance_name |-> i, status |-> "success"]
FailedEvent_WrongStatus(i) == [instance_name |-> i, status |-> "success"]
FailedEvent(i) == [instance_name |-> i, status |-> "failed"]

\* monitor.py:136-138, 65-67: None when the list is empty, else its JSON text.
FailoverJson(events) ==
    IF events = <<>> THEN [present |-> FALSE, events |-> <<>>]
                     ELSE [present |-> TRUE, events |-> events]

\* monitor.py:97-109, 156-168: the success CallRecord.
SuccessLog(mid, events) ==
    [status |-> "success", model_id |-> mid, is_stream |-> stream,
     type |-> "chat", failover_events |-> FailoverJson(events)]

\* monitor.py:179-189: the failure CallRecord; failover_events is not passed
\* and keeps the dataclass default None (models.py:178).  model_id is the
\* literal 'failure', written here as -1.
FailureModelId == 0 - 1
FailureLog ==
    [status |-> "failure", model_id |-> FailureModelId, is_stream |-> stream,
     type |-> "chat", failover_events |-> [present |-> FALSE, events |-> <<>>]]

NoOutcome == [kind |-> "none", instance |-> None, error |-> NoError]

\* router.py:16-21, StreamWithMetadata.__init__: the public fields of a new
\* handle.  router.py:226-229 and monitor.py:122-127 build the handle with
\* this constructor and then only add the private attributes _metadata_dict
\* and _failover_events_list; set_metadata and add_failover_event
\* (router.py:32-43) have no caller.
NoHandle == [exists |-> FALSE, instance_name |-> None, failover_events |-> <<>>]
StreamWithMetadata_init ==
    [exists |-> TRUE, instance_name |-> None, failover_events |-> <<>>]
\* router.py:45-47 and 49-51: the public accessors read the public fields.
get_metadata == handle.instance_name
get_failover_events == handle.failover_events

----------------------------------------------------------------------------
\* Values of the AgentState fields.  A field that is None (or was never
\* written) holds NoneStr, NoneInt or NoneDocs according to its type.
NoneStr == "None"
NoneInt == 0 - 1
NoneDocs == [present |-> FALSE, docs |-> <<>>]
DocList(d) == [present |-> TRUE, docs |-> d]

\* No resolution is running.
ResolverIdle ==
    /\ has_query = FALSE
    /\ node = "idle"
    /\ query_classification = NoneStr
    /\ retry_count = NoneInt
    /\ original_query = NoneStr
    /\ rewritten_query = NoneStr
    /\ retrieved_docs = NoneDocs
    /\ retrieval_score = NoneInt
    /\ evaluation_result = NoneStr
    /\ evaluation_reason = NoneStr
    /\ ai_messages = <<>>
    /\ raised = FALSE
    /\ path = <<>>
    /\ retrievals = <<>>
    /\ evaluations = <<>>
    /\ evaluator_calls = 0
    /\ generate_calls = 0
    /\ inputs = <<>>
    /\ decisions = <<>>

\* No session of two resolutions is followed.
SessionIdle ==
    /\ run = 0
    /\ script = <<>>
    /\ trace = <<>>

\* No concurrent completions are followed.
RegistryIdle ==
    /\ served = [w \in Workers |-> None]
    /\ worker_pc = [w \in Workers |-> "idle"]
    /\ model_rows = {}
    /\ returned_id = [w \in Workers |-> None]
    /\ log_rows = {}

\* No WebSocket turn is followed.
SocketIdle ==
    /\ ws_pc = "idle"
    /\ connected = TRUE
    /\ stream_aborted = FALSE
    /\ callback_calls = 0
    /\ callback_raised = FALSE
    /\ sends = <<>>

\* No score has been asked for.
NoScore == [done |-> FALSE, num |-> 0, den |-> 1]
QualityIdle ==
    /\ quality_docs = <<>>
    /\ quality_score = NoScore

\* No concurrent calls are followed.
SharedIdle ==
    /\ shared_adapters = {}
    /\ c_stream = [c \in Calls |-> FALSE]
    /\ c_pc = [c \in Calls |-> "idle"]
    /\ c_idx = [c \in Calls |-> 1]
    /\ c_events = [c \in Calls |-> <<>>]
    /\ c_metadata = [c \in Calls |-> None]
    /\ c_attempts = [c \in Calls |-> <<>>]

\* No save is followed.
MemoryIdle ==
    /\ mem_pc = "idle"
    /\ session_exists = FALSE
    /\ message_count = 0
    /\ stored_turns = <<>>
    /\ turn_number = None
    /\ inserted = FALSE
    /\ saves = <<>>

\* Nothing but the router, the resolver, the registry or the socket is
\* followed.
RestIdle ==
    /\ QualityIdle
    /\ SharedIdle
    /\ MemoryIdle

----------------------------------------------------------------------------
Init ==
    /\ ResolverIdle
    /\ SessionIdle
    /\ RegistryIdle
    /\ SocketIdle
    /\ RestIdle
    /\ call \in {"chat", "embed"}
    /\ model_known \in BOOLEAN
    /\ handle = NoHandle
    /\ stream \in (IF call = "chat" THEN BOOLEAN ELSE {FALSE})
    /\ adapters \in SUBSET Instances
    /\ models \in SUBSET Instances
    /\ pc = "entry"
    /\ idx = 1
    /\ produced = 0
    /\ attempts = <<>>
    /\ failover_events = <<>>
    /\ last_exception = NoError
    /\ metadata = None
    /\ metadata_writes = <<>>
    /\ delivered = <<>>
    /\ router_outcome = NoOutcome
    /\ model_id = None
    /\ handled = NoError
    /\ logs = <<>>
    /\ caller_outcome = NoOutcome

\* An entry that persists a record for the call in flight.
Enter_InFlightRecord ==
    /\ pc = "entry"
    /\ call = "chat"
    /\ model_known
    /\ pc' = "loop"
    /\ handle' = IF stream THEN StreamWithMetadata_init ELSE handle
    /\ caller_outcome' = IF stream
                           THEN [kind |-> "handle", instance |-> None, error |-> NoError]
                           ELSE caller_outcome
    /\ UNCHANGED <<stream, adapters, models, idx, produced, attempts,
                   failover_events, last_exception, metadata, metadata_writes,
                   delivered, router_outcome, model_id, handled>>
    /\ logs' = Append(logs, FailureLog)
    /\ UNCHANGED <<call, model_known>>
    /\ UNCHANGED outside_router

\* monitor.py:29-38 and router.py:117-127 / 167-170, 226-230 with
\* monitor.py:44, 122-128: for a non-streaming request the wrapper awaits the
\* router's loop; for a streaming request the router returns the handle
\* without running the generator, and the wrapper returns the wrapped handle.
Enter ==
    /\ pc = "entry"
    /\ call = "chat"
    /\ model_known
    /\ pc' = "loop"
    /\ handle' = IF stream THEN StreamWithMetadata_init ELSE handle
    /\ caller_outcome' = IF stream
                           THEN [kind |-> "handle", instance |-> None, error |-> NoError]
                           ELSE caller_outcome
    /\ UNCHANGED <<stream, adapters, models, idx, produced, attempts,
                   failover_events, last_exception, metadata, metadata_writes,
                   delivered, router_outcome, model_id, handled, logs>>
    /\ UNCHANGED <<call, model_known>>
    /\ UNCHANGED outside_router

\* Everything the router's loop leaves alone.
MonitorUnchanged == UNCHANGED <<model_id, handled, logs, models>>

\* A skip that leaves no trace in the failover log.
Skip_NoEvent ==
    /\ pc = "loop"
    /\ idx <= NumInstances
    /\ instance_names[idx] \notin adapters
    /\ idx' = idx + 1
    /\ MonitorUnchanged
    /\ UNCHANGED <<stream, adapters, pc, produced, attempts, failover_events,
                   last_exception, metadata, metadata_writes, delivered,
                   router_outcome, caller_outcome>>
    /\ UNCHANGED <<call, model_known, handle>>
    /\ UNCHANGED outside_router

\* router.py:130-140 and 177-187: no adapter bound, append skipped, continue.
Skip ==
    /\ pc = "loop"
    /\ idx <= NumInstances
    /\ instance_names[idx] \notin adapters
    /\ failover_events' = Append(failover_events, SkippedEvent(instance_names[idx]))
    /\ idx' = idx + 1
    /\ MonitorUnchanged
    /\ UNCHANGED <<stream, adapters, pc, produced, attempts, last_exception,
                   metadata, metadata_writes, delivered, router_outcome,
                   caller_outcome>>
    /\ UNCHANGED <<call, model_known, handle>>
    /\ UNCHANGED outside_router

\* A success that appends its event and goes on with the next instance.
ChatSuccess_NoReturn ==
    /\ pc = "loop"
    /\ ~stream
    /\ idx <= NumInstances
    /\ instance_names[idx] \in adapters
    /\ attempts' = Append(attempts, [inst |-> instance_names[idx], ok |-> TRUE])
    /\ failover_events' = Append(failover_events, SuccessEvent(instance_names[idx]))
    /\ router_outcome' = [kind |-> "return", instance |-> instance_names[idx],
                          error |-> NoError]
    /\ idx' = idx + 1
    /\ MonitorUnchanged
    /\ UNCHANGED <<stream, adapters, pc, produced, last_exception, metadata,
                   metadata_writes, delivered, caller_outcome>>
    /\ UNCHANGED <<call, model_known, handle>>
    /\ UNCHANGED outside_router

\* router.py:142-154: the adapter call returns; append success and return
\* (result, instance_name, physical_model_name, failover_events).
ChatSuccess ==
    /\ pc = "loop"
    /\ ~stream
    /\ idx <= NumInstances
    /\ instance_names[idx] \in adapters
    /\ attempts' = Append(attempts, [inst |-> instance_names[idx], ok |-> TRUE])
    /\ failover_events' = Append(failover_events, SuccessEvent(instance_names[idx]))
    /\ router_outcome' = [kind |-> "return", instance |-> instance_names[idx],
                          error |-> NoError]
    /\ pc' = "mon_model"
    /\ MonitorUnchanged
    /\ UNCHANGED <<stream, adapters, idx, produced, last_exception, metadata,
                   metadata_writes, delivered, caller_outcome>>
    /\ UNCHANGED <<call, model_known, handle>>
    /\ UNCHANGED outside_router

\* A failure whose event is put at the head of the log.
ChatFail_Prepend ==
    /\ pc = "loop"
    /\ ~stream
    /\ idx <= NumInstances
    /\ instance_names[idx] \in adapters
    /\ attempts' = Append(attempts, [inst |-> instance_names[idx], ok |-> FALSE])
    /\ failover_events' = <<FailedEvent(instance_names[idx])>> \o failover_events
    /\ last_exception' = AdapterError(instance_names[idx])
    /\ idx' = idx + 1
    /\ MonitorUnchanged
    /\ UNCHANGED <<stream, adapters, pc, produced, metadata, metadata_writes,
                   delivered, router_outcome, caller_outcome>>
    /\ UNCHANGED <<call, model_known, handle>>
    /\ UNCHANGED outside_router

\* router.py:142-144, 156-164: the adapter call raises; append failed, keep
\* the exception, go on with the next instance.
ChatFail ==
    /\ pc = "loop"
    /\ ~stream
    /\ idx <= NumInstances
    /\ instance_names[idx] \in adapters
    /\ attempts' = Append(attempts, [inst |-> instance_names[idx], ok |-> FALSE])
    /\ failover_events' = Append(failover_events, FailedEvent(instance_names[idx]))
    /\ last_exception' = AdapterError(instance_names[idx])
    /\ idx' = idx + 1
    /\ MonitorUnchanged
    /\ UNCHANGED <<stream, adapters, pc, produced, metadata, metadata_writes,
                   delivered, router_outcome, caller_outcome>>
    /\ UNCHANGED <<call, model_known, handle>>
    /\ UNCHANGED outside_router

\* router.py:166 (non-streaming): the loop is exhausted, the router raises and
\* the wrapper's except clause (monitor.py:176) catches the exception.
\* router.py:223 (streaming): the generator raises inside the consumer's
\* __anext__; stream_with_logging logs it with logger.error and re-raises
\* (monitor.py:117-119), nothing is persisted.
AllFailed ==
    /\ pc = "loop"
    /\ idx = NumInstances + 1
    /\ router_outcome' = [kind |-> "raise", instance |-> None,
                          error |-> AllInstancesFailed(last_exception)]
    /\ IF stream
         THEN /\ pc' = "done"
              /\ caller_outcome' = [kind |-> "raise", instance |-> None,
                                    error |-> AllInstancesFailed(last_exception)]
              /\ UNCHANGED handled
         ELSE /\ pc' = "mon_except"
              /\ handled' = AllInstancesFailed(last_exception)
              /\ UNCHANGED caller_outcome
    /\ UNCHANGED <<stream, adapters, models, idx, produced, attempts,
                   failover_events, last_exception, metadata, metadata_writes,
                   delivered, model_id, logs>>
    /\ UNCHANGED <<call, model_known, handle>>
    /\ UNCHANGED outside_router

\* router.py:189-205 with qwen.py:32-33, ollama.py:46-47, vllm.py:39-40:
\* adapter.chat(stream=True) only builds the adapter's async generator, so the
\* awaited call returns without any I/O; the router then writes the metadata
\* and appends the success event before the first chunk is requested.
StreamOpen ==
    /\ pc = "loop"
    /\ stream
    /\ idx <= NumInstances
    /\ instance_names[idx] \in adapters
    /\ attempts' = Append(attempts, [inst |-> instance_names[idx], ok |-> TRUE])
    /\ metadata' = instance_names[idx]
    /\ metadata_writes' = Append(metadata_writes, instance_names[idx])
    /\ failover_events' = Append(failover_events, SuccessEvent(instance_names[idx]))
    /\ produced' = 0
    /\ pc' = "iter"
    /\ MonitorUnchanged
    /\ UNCHANGED <<stream, adapters, idx, last_exception, delivered,
                   router_outcome, caller_outcome>>
    /\ UNCHANGED <<call, model_known, handle>>
    /\ UNCHANGED outside_router

\* router.py:207-208, StreamWithMetadata.__anext__ (router.py:27-30) and
\* monitor.py:49-50: the adapter's generator yields a chunk and it is passed
\* unchanged to the consumer.
StreamChunk ==
    /\ pc = "iter"
    /\ produced < MaxChunks
    /\ produced' = produced + 1
    /\ delivered' = Append(delivered, [inst |-> instance_names[idx], seq |-> produced + 1])
    /\ MonitorUnchanged
    /\ UNCHANGED <<stream, adapters, pc, idx, attempts, failover_events,
                   last_exception, metadata, metadata_writes, router_outcome,
                   caller_outcome>>
    /\ UNCHANGED <<call, model_known, handle>>
    /\ UNCHANGED outside_router

\* router.py:207, 213-221 with qwen.py:57-68: the adapter's generator raises,
\* while connecting (produced = 0) or between two chunks; the except clause
\* around the async for appends failed and the for loop goes on.
StreamFail ==
    /\ pc = "iter"
    /\ failover_events' = Append(failover_events, FailedEvent(instance_names[idx]))
    /\ last_exception' = AdapterError(instance_names[idx])
    /\ idx' = idx + 1
    /\ pc' = "loop"
    /\ MonitorUnchanged
    /\ UNCHANGED <<stream, adapters, produced, attempts, metadata,
                   metadata_writes, delivered, router_outcome, caller_outcome>>
    /\ UNCHANGED <<call, model_known, handle>>
    /\ UNCHANGED outside_router

\* router.py:207-211 and monitor.py:49-69, 114-115: the adapter's generator is
\* exhausted, the router's generator returns, and stream_with_logging goes on
\* to its logging part (skipped with a warning when no metadata was written).
StreamEnd ==
    /\ pc = "iter"
    /\ router_outcome' = [kind |-> "stream_end", instance |-> instance_names[idx],
                          error |-> NoError]
    /\ IF metadata # None
         THEN pc' = "mon_model" /\ UNCHANGED caller_outcome
         ELSE /\ pc' = "done"
              /\ caller_outcome' = [kind |-> "stream_end", instance |-> None,
                                    error |-> NoError]
    /\ MonitorUnchanged
    /\ UNCHANGED <<stream, adapters, idx, produced, attempts, failover_events,
                   last_exception, metadata, metadata_writes, delivered>>
    /\ UNCHANGED <<call, model_known, handle>>
    /\ UNCHANGED outside_router

\* The consumer may stop where it holds the handle without a pending step of
\* the generator: before the first __anext__, or while the router's
\* generator is suspended in the adapter's stream (router.py:207-208).
CanAbandon ==
    /\ call = "chat"
    /\ stream
    /\ \/ pc = "iter"
       \/ pc = "loop" /\ idx = 1 /\ failover_events = <<>>

\* An abandonment that the monitor records as a failed call.
Abandon_LoggedAsFailure ==
    /\ CanAbandon
    /\ pc' = "done"
    /\ router_outcome' = [kind |-> "closed", instance |-> None, error |-> NoError]
    /\ caller_outcome' = [kind |-> "abandoned", instance |-> None, error |-> NoError]
    /\ logs' = Append(logs, FailureLog)
    /\ UNCHANGED <<call, model_known, handle, stream, adapters, models, idx,
                   produced, attempts, failover_events, last_exception,
                   metadata, metadata_writes, delivered, model_id, handled>>
    /\ UNCHANGED outside_router

\* The consumer drops the handle before the stream is exhausted.  The
\* generators are closed at their yield (GeneratorExit) or never started;
\* the clauses around the yields, router.py:213 and monitor.py:117, are
\* `except Exception` and do not run, and the wrapper's except clause
\* (monitor.py:176) is no longer on the stack: nothing is appended to the
\* failover log and nothing is persisted.
Abandon ==
    /\ CanAbandon
    /\ pc' = "done"
    /\ router_outcome' = [kind |-> "closed", instance |-> None, error |-> NoError]
    /\ caller_outcome' = [kind |-> "abandoned", instance |-> None, error |-> NoError]
    /\ UNCHANGED <<call, model_known, handle, stream, adapters, models, idx,
                   produced, attempts, failover_events, last_exception,
                   metadata, metadata_writes, delivered, model_id, handled,
                   logs>>
    /\ UNCHANGED outside_router

----------------------------------------------------------------------------
\* The instance the monitor logs: the returned instance_name (monitor.py:132)
\* or the closure's metadata (monitor.py:56-59).
ServedInstance == IF stream THEN metadata ELSE router_outcome.instance

\* An exception raised in the monitor's success path.  Non-streaming: it is
\* caught by the wrapper's own except clause (monitor.py:176).  Streaming: it
\* is raised inside stream_with_logging, logged and re-raised to the consumer
\* (monitor.py:117-119).
RaiseInMonitor(e) ==
    IF stream
      THEN /\ pc' = "done"
           /\ caller_outcome' = [kind |-> "raise", instance |-> None, error |-> e]
           /\ UNCHANGED handled
      ELSE /\ pc' = "mon_except"
           /\ handled' = e
           /\ UNCHANGED caller_outcome

RouterUnchanged ==
    UNCHANGED <<stream, adapters, idx, produced, attempts, failover_events,
                last_exception, metadata, metadata_writes, delivered,
                router_outcome>>

\* repositories.py:381-406: SELECT the row of the instance and return its id;
\* when there is none, INSERT it, and the function ends without a return
\* statement, so the caller gets None.
GetOrCreateModel ==
    /\ pc = "mon_model"
    /\ model_id' = IF ServedInstance \in models THEN ServedInstance ELSE None
    /\ models' = models \cup {ServedInstance}
    /\ pc' = "mon_save"
    /\ RouterUnchanged
    /\ UNCHANGED <<handled, logs, caller_outcome>>
    /\ UNCHANGED <<call, model_known, handle>>
    /\ UNCHANGED outside_router

\* connection.py:166-169: a database error in get_or_create_model is printed
\* and re-raised.
GetOrCreateModelError ==
    /\ pc = "mon_model"
    /\ RaiseInMonitor(DbError)
    /\ RouterUnchanged
    /\ UNCHANGED <<model_id, logs, models>>
    /\ UNCHANGED <<call, model_known, handle>>
    /\ UNCHANGED outside_router

\* monitor.py:156-174 / 97-115 and repositories.py:408-431: the success
\* CallRecord is inserted and the wrapper hands the router's result on.
SaveLog ==
    /\ pc = "mon_save"
    /\ logs' = Append(logs, SuccessLog(model_id, failover_events))
    /\ caller_outcome' = [kind |-> IF stream THEN "stream_end" ELSE "return",
                          instance |-> IF stream THEN None ELSE router_outcome.instance,
                          error |-> NoError]
    /\ pc' = "done"
    /\ RouterUnchanged
    /\ UNCHANGED <<model_id, handled, models>>
    /\ UNCHANGED <<call, model_known, handle>>
    /\ UNCHANGED outside_router

\* repositories.py:432-434 and connection.py:166-169: the INSERT fails and
\* save_log raises.
SaveLogError ==
    /\ pc = "mon_save"
    /\ RaiseInMonitor(DbError)
    /\ RouterUnchanged
    /\ UNCHANGED <<model_id, logs, models>>
    /\ UNCHANGED <<call, model_known, handle>>
    /\ UNCHANGED outside_router

\* monitor.py:176-192: the except clause inserts the failure CallRecord and
\* re-raises the exception it caught.
SaveFailureLog ==
    /\ pc = "mon_except"
    /\ logs' = Append(logs, FailureLog)
    /\ caller_outcome' = [kind |-> "raise", instance |-> None, error |-> handled]
    /\ pc' = "done"
    /\ RouterUnchanged
    /\ UNCHANGED <<model_id, handled, models>>
    /\ UNCHANGED <<call, model_known, handle>>
    /\ UNCHANGED outside_router

\* monitor.py:190 with connection.py:166-169: save_log raises inside the
\* except clause; that exception leaves the wrapper instead of the caught one.
SaveFailureLogError ==
    /\ pc = "mon_except"
    /\ caller_outcome' = [kind |-> "raise", instance |-> None, error |-> DbError]
    /\ pc' = "done"
    /\ RouterUnchanged
    /\ UNCHANGED <<model_id, handled, logs, models>>
    /\ UNCHANGED <<call, model_known, handle>>
    /\ UNCHANGED outside_router

----------------------------------------------------------------------------
\* Everything the calls below leave alone.
EmbedUnchanged ==
    UNCHANGED <<call, model_known, handle, stream, adapters, models, produced,
                failover_events, metadata, metadata_writes, delivered,
                model_id, handled, logs>>

\* A lookup that lets an unknown logical model through to the loop.
UnknownModel_Proceeds ==
    /\ pc = "entry"
    /\ call = "chat"
    /\ ~model_known
    /\ pc' = "loop"
    /\ handle' = IF stream THEN StreamWithMetadata_init ELSE handle
    /\ caller_outcome' = IF stream
                           THEN [kind |-> "handle", instance |-> None, error |-> NoError]
                           ELSE caller_outcome
    /\ UNCHANGED <<call, model_known, stream, adapters, models, idx, produced,
                   attempts, failover_events, last_exception, metadata,
                   metadata_writes, delivered, router_outcome, model_id,
                   handled, logs>>
    /\ UNCHANGED outside_router

\* router.py:117-119 with monitor.py:37-38, 176: self.models.get(model) is
\* empty, chat raises ValueError before it looks at the stream flag; the
\* exception leaves `await func(...)` inside the wrapper's try and is caught
\* by its except clause, for a streaming request as well.
UnknownModel ==
    /\ pc = "entry"
    /\ call = "chat"
    /\ ~model_known
    /\ router_outcome' = [kind |-> "raise", instance |-> None, error |-> ConfigError]
    /\ handled' = ConfigError
    /\ pc' = "mon_except"
    /\ UNCHANGED <<call, model_known, handle, stream, adapters, models, idx,
                   produced, attempts, failover_events, last_exception,
                   metadata, metadata_writes, delivered, model_id, logs,
                   caller_outcome>>
    /\ UNCHANGED outside_router

\* router.py:233, 242-244: embed carries no decorator; ValueError goes
\* straight to the caller.
EmbedUnknownModel ==
    /\ pc = "entry"
    /\ call = "embed"
    /\ ~model_known
    /\ router_outcome' = [kind |-> "raise", instance |-> None, error |-> ConfigError]
    /\ caller_outcome' = [kind |-> "raise", instance |-> None, error |-> ConfigError]
    /\ pc' = "done"
    /\ EmbedUnchanged
    /\ UNCHANGED <<idx, attempts, last_exception>>
    /\ UNCHANGED outside_router

\* router.py:242-252: the logical model is configured, the loop starts.
EmbedEnter ==
    /\ pc = "entry"
    /\ call = "embed"
    /\ model_known
    /\ pc' = "embed_loop"
    /\ EmbedUnchanged
    /\ UNCHANGED <<idx, attempts, last_exception, router_outcome, caller_outcome>>
    /\ UNCHANGED outside_router

\* router.py:253-258: no adapter bound, continue; embed keeps no event list.
EmbedSkip ==
    /\ pc = "embed_loop"
    /\ idx <= NumInstances
    /\ instance_names[idx] \notin adapters
    /\ idx' = idx + 1
    /\ EmbedUnchanged
    /\ UNCHANGED <<pc, attempts, last_exception, router_outcome, caller_outcome>>
    /\ UNCHANGED outside_router

\* router.py:263-266: adapter.embed returns and its result is returned.
EmbedSuccess ==
    /\ pc = "embed_loop"
    /\ idx <= NumInstances
    /\ instance_names[idx] \in adapters
    /\ attempts' = Append(attempts, [inst |-> instance_names[idx], ok |-> TRUE])
    /\ router_outcome' = [kind |-> "return", instance |-> instance_names[idx],
                          error |-> NoError]
    /\ caller_outcome' = [kind |-> "return", instance |-> instance_names[idx],
                          error |-> NoError]
    /\ pc' = "done"
    /\ EmbedUnchanged
    /\ UNCHANGED <<idx, last_exception>>
    /\ UNCHANGED outside_router

\* router.py:263-270: adapter.embed raises; the inner except keeps the
\* exception and the loop goes on.
EmbedFail ==
    /\ pc = "embed_loop"
    /\ idx <= NumInstances
    /\ instance_names[idx] \in adapters
    /\ attempts' = Append(attempts, [inst |-> instance_names[idx], ok |-> FALSE])
    /\ last_exception' = AdapterError(instance_names[idx])
    /\ idx' = idx + 1
    /\ EmbedUnchanged
    /\ UNCHANGED <<pc, router_outcome, caller_outcome>>
    /\ UNCHANGED outside_router

\* router.py:252-274: the loop is exhausted.  The raise of line 274 is the
\* body of the bare except of line 273, which only runs when something
\* escapes the loop; every adapter exception was caught at line 267, so the
\* try block ends normally and the coroutine returns None.
EmbedExhausted ==
    /\ pc = "embed_loop"
    /\ idx = NumInstances + 1
    /\ router_outcome' = [kind |-> "return_none", instance |-> None, error |-> NoError]
    /\ caller_outcome' = [kind |-> "return_none", instance |-> None, error |-> NoError]
    /\ pc' = "done"
    /\ EmbedUnchanged
    /\ UNCHANGED <<idx, attempts, last_exception>>
    /\ UNCHANGED outside_router

----------------------------------------------------------------------------
Next ==
    \/ Enter
    \/ UnknownModel
    \/ EmbedUnknownModel
    \/ EmbedEnter
    \/ EmbedSkip
    \/ EmbedSuccess
    \/ EmbedFail
    \/ EmbedExhausted
    \/ Skip
    \/ ChatSuccess
    \/ ChatFail
    \/ AllFailed
    \/ StreamOpen
    \/ StreamChunk
    \/ StreamFail
    \/ StreamEnd
    \/ Abandon
    \/ GetOrCreateModel
    \/ GetOrCreateModelError
    \/ SaveLog
    \/ SaveLogError
    \/ SaveFailureLog
    \/ SaveFailureLogError

Spec == Init /\ [][Next]_vars

----------------------------------------------------------------------------
(***************************************************************************)
(* The query resolver: the LangGraph state machine of src/agent/graph.py   *)
(* over the nodes of src/agent/nodes.py.  One resolution (one ainvoke of   *)
(* the compiled graph on a fresh AgentState) is followed from START to     *)
(* END.  A Router.chat call, a retrieval and a web search are seen from    *)
(* the node that makes them: each returns or raises.                       *)
(***************************************************************************)

\* No router call is followed while a resolution runs.
RouterIdle ==
    /\ call = "chat"
    /\ model_known = TRUE
    /\ handle = NoHandle
    /\ stream = FALSE
    /\ adapters = {}
    /\ models = {}
    /\ pc = "idle"
    /\ idx = 1
    /\ produced = 0
    /\ attempts = <<>>
    /\ failover_events = <<>>
    /\ last_exception = NoError
    /\ metadata = None
    /\ metadata_writes = <<>>
    /\ delivered = <<>>
    /\ router_outcome = NoOutcome
    /\ model_id = None
    /\ handled = NoError
    /\ logs = <<>>
    /\ caller_outcome = NoOutcome

\* nodes.py:373
MAX_RETRY == 2

\* The content of the last HumanMessage, and what query rewriting (entity
\* linking, nodes.py:83-86, and the rewrite call, nodes.py:159-178) can make
\* of it.
UserQuery == "q"
RewrittenQueries == {"q", "q_rewritten"}

\* Rerank scores of retrieved documents, in tenths.
Scores == {2, 10}

RECURSIVE Sum(_)
Sum(scores) ==
    IF scores = <<>> THEN 0 ELSE Head(scores) + Sum(Tail(scores))

Min(a, b) == IF a < b THEN a ELSE b

\* Results of retrieve_documents (rag.py:335-387): at most MaxDocs documents,
\* each stood for by its rerank score, in reranked (descending) order.
Retrievable ==
    {d \in UNION {[1..n -> Scores] : n \in 0..MaxDocs} :
        \A k \in 1..(Len(d) - 1) : d[k] >= d[k + 1]}

\* rag.py:390-444, calculate_retrieval_quality, as an exact fraction num/den:
\*   quality = 0.6 * avg + 0.2 * min(n / 5, 1) + 0.2 * distribution
\*   distribution = min((top - avg of the others) * 2, 1) for n > 1, else 1
\* With scores in tenths, m = n - 1 (1 for n = 1) and den = 50 * n * m:
\*   0.6 * (sum / 10n) * den = 3 * sum * m
\*   0.2 * min(n/5, 1) * den = 2 * min(n, 5) * n * m
\*   0.2 * distribution * den = min(2n * (top * m - rest), 10 * n * m)
QualityDen(scores) ==
    LET n == Len(scores)
        m == IF n > 1 THEN n - 1 ELSE 1
    IN  50 * n * m

QualityNum(scores) ==
    LET n == Len(scores)
        m == IF n > 1 THEN n - 1 ELSE 1
    IN  IF n = 0 THEN 0
        ELSE 3 * Sum(scores) * m
             + 2 * Min(n, 5) * n * m
             + (IF n > 1
                  THEN Min(2 * n * (Head(scores) * m - Sum(Tail(scores))),
                           10 * n * m)
                  ELSE 10 * n * m)

\* The score as it is kept in retrieval_score, in thousandths (rounded down).
calculate_retrieval_quality(scores) ==
    IF scores = <<>> THEN 0
    ELSE (1000 * QualityNum(scores)) \div QualityDen(scores)

\* A threshold of 0.3.
QualityAboveThreshold_Low(scores) ==
    50 * QualityNum(scores) > 15 * QualityDen(scores)
\* nodes.py:519: quality_score > 0.6, i.e. num / den > 30 / 50.
QualityAboveThreshold(scores) ==
    50 * QualityNum(scores) > 30 * QualityDen(scores)

\* state.get("retry_count", 0) or 0  (nodes.py:73, 377)
OrZero(x) == IF x = NoneInt THEN 0 ELSE x

\* A retry test that lets one retry too many through.
CanRetry_OffByOne(rc) == rc <= MAX_RETRY
\* nodes.py:387, 483, 526: retry_count < MAX_RETRY
CanRetry(rc) == rc < MAX_RETRY

\* A test that takes an empty list for documents.
NoDocuments_NoneOnly(d) == ~d.present
\* nodes.py:383, 583: `not retrieved_docs`, true of None and of [].
NoDocuments(d) == d.docs = <<>>

\* A classification route that sends an unknown label on to generation.
route_after_classify_ToGenerate(classification) ==
    IF classification = "knowledge_base" THEN "knowledge_base"
    ELSE IF classification = "web_search" THEN "web_search"
    ELSE IF classification = "end" THEN "end"
    ELSE "llm_generate"

\* graph.py:20-39: every label other than knowledge_base and web_search,
\* "end" included, goes to the end node.
route_after_classify(classification) ==
    IF classification = "knowledge_base" THEN "knowledge_base"
    ELSE IF classification = "web_search" THEN "web_search"
    ELSE "end"

\* An evaluation route that sends every verdict back to the classifier.
route_after_evaluation_AlwaysRetry(result) == "query_classify"
\* graph.py:42-60
route_after_evaluation(result) ==
    IF result = "rewrite" THEN "query_classify" ELSE "llm_generate"

\* What the classification call can yield (nodes.py:217-279): the call
\* raises, its answer is not JSON, or it is JSON with some label.
ClassifyOutcomes ==
    {"raise", "bad_json", "knowledge_base", "web_search", "end", "other"}
\* A classification that ends the turn when the call or the parse fails.
Classification_FailureEnds(outcome) ==
    IF outcome \in {"raise", "bad_json"} THEN "end" ELSE outcome
\* nodes.py:241 (the label of the parsed answer), 258-279 (knowledge_base
\* when the answer is not JSON or the call raised).
Classification(outcome) ==
    IF outcome \in {"raise", "bad_json"} THEN "knowledge_base" ELSE outcome

\* What the evaluation call can yield (nodes.py:452-540).
EvaluateOutcomes == {"raise", "bad_json", "pass", "rewrite", "other"}

\* History, kept in a session of two resolutions: what a node was given from
\* outside the AgentState: the answer of the classification or evaluation
\* call, or the outcome of the retrieval.
Given(response, ok, documents) ==
    inputs' = IF run = 0 THEN inputs
              ELSE Append(inputs, [node |-> node, response |-> response,
                                   ok |-> ok, documents |-> documents])

\* History, kept in a session of two resolutions: the route taken after a
\* node, with the fields the routes read.
Decided ==
    decisions' = IF run = 0 THEN decisions
                 ELSE Append(decisions,
                             [next |-> node',
                              query_classification |-> query_classification',
                              evaluation_result |-> evaluation_result',
                              retry_count |-> retry_count'])

ResolverInit ==
    /\ RouterIdle
    /\ RegistryIdle
    /\ SocketIdle
    /\ RestIdle
    /\ SessionIdle
    /\ inputs = <<>>
    /\ decisions = <<>>
    /\ has_query \in BOOLEAN
    /\ node = "query_classify"
    /\ query_classification = NoneStr
    /\ retry_count = NoneInt
    /\ original_query = NoneStr
    /\ rewritten_query = NoneStr
    /\ retrieved_docs = NoneDocs
    /\ retrieval_score = NoneInt
    /\ evaluation_result = NoneStr
    /\ evaluation_reason = NoneStr
    /\ ai_messages = <<>>
    /\ raised = FALSE
    /\ path = <<>>
    /\ retrievals = <<>>
    /\ evaluations = <<>>
    /\ evaluator_calls = 0
    /\ generate_calls = 0

\* A classification that follows the wording of the rewritten query.
query_classify_node_ByRewrite ==
    /\ node = "query_classify"
    /\ path' = Append(path, "query_classify")
    /\ IF ~has_query
         THEN /\ query_classification' = "end"
              /\ original_query' = ""
              /\ UNCHANGED <<retry_count, rewritten_query, inputs>>
         ELSE \E rewritten \in RewrittenQueries, outcome \in ClassifyOutcomes :
              /\ query_classification' = IF rewritten = UserQuery
                                           THEN Classification(outcome)
                                           ELSE "web_search"
              /\ original_query' = UserQuery
              /\ rewritten_query' = rewritten
              /\ retry_count' = IF OrZero(retry_count) = 0 THEN 0 ELSE retry_count
              /\ Given(outcome, TRUE, <<>>)
    /\ node' = route_after_classify(query_classification')
    /\ UNCHANGED <<has_query, retrieved_docs, retrieval_score, evaluation_result,
                   evaluation_reason, ai_messages, raised, retrievals,
                   evaluations, evaluator_calls, generate_calls>>
    /\ Decided
    /\ UNCHANGED outside_resolver

\* nodes.py:37-279 and graph.py:96-105.
query_classify_node ==
    /\ node = "query_classify"
    /\ path' = Append(path, "query_classify")
    /\ IF ~has_query
         THEN /\ query_classification' = "end"
              /\ original_query' = ""
              /\ UNCHANGED <<retry_count, rewritten_query, inputs>>
         ELSE \E rewritten \in RewrittenQueries, outcome \in ClassifyOutcomes :
              /\ query_classification' = Classification(outcome)
              /\ original_query' = UserQuery
              /\ rewritten_query' = rewritten
              /\ retry_count' = IF OrZero(retry_count) = 0 THEN 0 ELSE retry_count
              /\ Given(outcome, TRUE, <<>>)
    /\ node' = route_after_classify(query_classification')
    /\ UNCHANGED <<has_query, retrieved_docs, retrieval_score, evaluation_result,
                   evaluation_reason, ai_messages, raised, retrievals,
                   evaluations, evaluator_calls, generate_calls>>
    /\ Decided
    /\ UNCHANGED outside_resolver

\* nodes.py:296-312: rewritten_query, else original_query, else the last
\* HumanMessage.
RetrievalQuery ==
    IF rewritten_query \notin {NoneStr, ""} THEN rewritten_query
    ELSE IF original_query \notin {NoneStr, ""} THEN original_query
    ELSE IF has_query THEN UserQuery
    ELSE NoneStr

\* nodes.py:282-354 and graph.py:108.
knowledge_base_node ==
    /\ node = "knowledge_base"
    /\ path' = Append(path, "knowledge_base")
    /\ IF RetrievalQuery = NoneStr
         THEN /\ retrieved_docs' = DocList(<<>>)
              /\ retrieval_score' = 0
              /\ UNCHANGED <<retrievals, inputs>>
         ELSE \E ok \in BOOLEAN, documents \in Retrievable :
              /\ ~ok => documents = <<>>
              /\ retrieved_docs' = DocList(documents)
              /\ retrieval_score' = IF ok THEN retrieval_score ELSE 0
              /\ retrievals' = Append(retrievals,
                                      [retry_count |-> OrZero(retry_count),
                                       size |-> Len(documents)])
              /\ Given("documents", ok, documents)
    /\ node' = "rag_evaluation"
    /\ UNCHANGED <<has_query, query_classification, retry_count, original_query,
                   rewritten_query, evaluation_result, evaluation_reason,
                   ai_messages, raised, evaluations, evaluator_calls,
                   generate_calls>>
    /\ Decided
    /\ UNCHANGED outside_resolver

\* A decision that follows the evaluator's rewrite verdict without looking at
\* the retry limit.
Evaluate_UnguardedRewrite(rc, docs, outcome) ==
    LET rewrite(reason) == [result |-> "rewrite", retry_count |-> rc + 1,
                            reason |-> reason]
        pass == [result |-> "pass", retry_count |-> rc, reason |-> NoneStr]
    IN  IF NoDocuments(docs)
          THEN IF CanRetry(rc) THEN rewrite("no_documents") ELSE pass
        ELSE IF outcome = "raise"
          THEN IF QualityAboveThreshold(docs.docs) THEN pass
               ELSE IF CanRetry(rc) THEN rewrite("low_quality")
               ELSE pass
        ELSE IF outcome = "rewrite" THEN rewrite("llm_reason")
        ELSE pass

\* nodes.py:382-540: the decision, as the dict the node returns; reason is
\* NoneStr where the dict has no evaluation_reason key.
Evaluate(rc, docs, outcome) ==
    LET rewrite(reason) == [result |-> "rewrite", retry_count |-> rc + 1,
                            reason |-> reason]
        pass == [result |-> "pass", retry_count |-> rc, reason |-> NoneStr]
    IN  IF NoDocuments(docs)
          THEN IF CanRetry(rc) THEN rewrite("no_documents") ELSE pass
        ELSE IF outcome = "raise"
          THEN IF QualityAboveThreshold(docs.docs) THEN pass
               ELSE IF CanRetry(rc) THEN rewrite("low_quality")
               ELSE pass
        ELSE IF outcome = "rewrite" /\ CanRetry(rc) THEN rewrite("llm_reason")
        ELSE pass

\* nodes.py:357-540 and graph.py:111-118.
rag_evaluation_node ==
    /\ node = "rag_evaluation"
    /\ path' = Append(path, "rag_evaluation")
    /\ \E outcome \in EvaluateOutcomes :
         LET rc == OrZero(retry_count)
             decision == Evaluate(rc, retrieved_docs, outcome)
         IN  /\ NoDocuments(retrieved_docs) => outcome = "pass"
             /\ evaluation_result' = decision.result
             /\ retry_count' = decision.retry_count
             /\ evaluation_reason' = IF decision.reason = NoneStr
                                       THEN evaluation_reason
                                       ELSE decision.reason
             /\ retrieval_score' = IF NoDocuments(retrieved_docs) THEN 0
                                   ELSE calculate_retrieval_quality(retrieved_docs.docs)
             /\ evaluator_calls' = IF NoDocuments(retrieved_docs)
                                     THEN evaluator_calls
                                     ELSE evaluator_calls + 1
             /\ evaluations' = Append(evaluations,
                                      [result |-> decision.result,
                                       retry_count |-> rc,
                                       empty |-> NoDocuments(retrieved_docs)])
             /\ Given(outcome, TRUE, <<>>)
    /\ node' = route_after_evaluation(evaluation_result')
    /\ UNCHANGED <<has_query, query_classification, original_query,
                   rewritten_query, retrieved_docs, ai_messages, raised,
                   retrievals, generate_calls>>
    /\ Decided
    /\ UNCHANGED outside_resolver

\* nodes.py:573-580 and the like: all eight intermediate fields set to None.
ClearIntermediate ==
    /\ query_classification' = NoneStr
    /\ retry_count' = NoneInt
    /\ original_query' = NoneStr
    /\ rewritten_query' = NoneStr
    /\ retrieved_docs' = NoneDocs
    /\ retrieval_score' = NoneInt
    /\ evaluation_result' = NoneStr
    /\ evaluation_reason' = NoneStr

\* A generation whose model call is not guarded: the error leaves the node
\* and the graph.
llm_generate_node_NoExcept ==
    /\ node = "llm_generate"
    /\ path' = Append(path, "llm_generate")
    /\ node' = "END"
    /\ IF ~has_query
         THEN /\ ai_messages' = Append(ai_messages, "not_understood")
              /\ ClearIntermediate
              /\ UNCHANGED <<generate_calls, raised>>
         ELSE IF NoDocuments(retrieved_docs)
         THEN /\ ai_messages' = Append(ai_messages, "no_documents_fallback")
              /\ ClearIntermediate
              /\ UNCHANGED <<generate_calls, raised>>
         ELSE \E outcome \in {"answer", "empty", "raise"} :
              /\ generate_calls' = generate_calls + 1
              /\ IF outcome = "raise"
                   THEN /\ raised' = TRUE
                        /\ UNCHANGED <<ai_messages, query_classification,
                                       retry_count, original_query,
                                       rewritten_query, retrieved_docs,
                                       retrieval_score, evaluation_result,
                                       evaluation_reason>>
                   ELSE /\ ai_messages' = Append(ai_messages,
                                                 IF outcome = "answer"
                                                   THEN "answer"
                                                   ELSE "cannot_generate")
                        /\ ClearIntermediate
                        /\ UNCHANGED raised
    /\ UNCHANGED <<has_query, retrievals, evaluations, evaluator_calls, inputs>>
    /\ Decided
    /\ UNCHANGED outside_resolver

\* nodes.py:543-719 and graph.py:124: the streaming call and its drain are
\* inside one try; the except clause answers from the first document.
llm_generate_node ==
    /\ node = "llm_generate"
    /\ path' = Append(path, "llm_generate")
    /\ node' = "END"
    /\ IF ~has_query
         THEN /\ ai_messages' = Append(ai_messages, "not_understood")
              /\ UNCHANGED generate_calls
         ELSE IF NoDocuments(retrieved_docs)
         THEN /\ ai_messages' = Append(ai_messages, "no_documents_fallback")
              /\ UNCHANGED generate_calls
         ELSE \E outcome \in {"answer", "empty", "raise"} :
              /\ generate_calls' = generate_calls + 1
              /\ ai_messages' = Append(ai_messages,
                                       CASE outcome = "answer" -> "answer"
                                         [] outcome = "empty" -> "cannot_generate"
                                         [] outcome = "raise" -> "first_document_fallback")
    /\ ClearIntermediate
    /\ UNCHANGED <<has_query, raised, retrievals, evaluations, evaluator_calls,
                   inputs>>
    /\ Decided
    /\ UNCHANGED outside_resolver

\* nodes.py:722-918 and graph.py:121: the search yields text or nothing
\* (every failure of the FastMCP client ends in None, nodes.py:766-817); the
\* answer call is inside a try whose except clause answers from the search
\* text.
web_search_node ==
    /\ node = "web_search"
    /\ path' = Append(path, "web_search")
    /\ node' = "END"
    /\ IF ~has_query
         THEN ai_messages' = Append(ai_messages, "not_understood")
         ELSE \E found \in BOOLEAN, outcome \in {"answer", "empty", "raise"} :
              ai_messages' = Append(ai_messages,
                                    IF ~found THEN "search_apology"
                                    ELSE IF outcome = "answer" THEN "answer"
                                    ELSE "search_text_fallback")
    /\ ClearIntermediate
    /\ UNCHANGED <<has_query, raised, retrievals, evaluations, evaluator_calls,
                   generate_calls, inputs>>
    /\ Decided
    /\ UNCHANGED outside_resolver

\* nodes.py:921-934 and graph.py:127: three of the eight fields are set to
\* None.
end_node ==
    /\ node = "end"
    /\ path' = Append(path, "end")
    /\ node' = "END"
    /\ ai_messages' = Append(ai_messages, "goodbye")
    /\ query_classification' = NoneStr
    /\ retry_count' = NoneInt
    /\ original_query' = NoneStr
    /\ UNCHANGED <<rewritten_query, retrieved_docs, retrieval_score,
                   evaluation_result, evaluation_reason>>
    /\ UNCHANGED <<has_query, raised, retrievals, evaluations, evaluator_calls,
                   generate_calls, inputs>>
    /\ Decided
    /\ UNCHANGED outside_resolver

ResolverNext ==
    \/ query_classify_node
    \/ knowledge_base_node
    \/ rag_evaluation_node
    \/ llm_generate_node
    \/ web_search_node
    \/ end_node

ResolverSpec == ResolverInit /\ [][ResolverNext]_vars

\* The graph runner executes the node that is due (graph.py:65-132): every
\* node awaits calls that return or raise, so a due node does run.
ResolverFairSpec == ResolverSpec /\ WF_vars(ResolverNext)

----------------------------------------------------------------------------
(***************************************************************************)
(* Two resolutions of the same messages, one after the other, in the same  *)
(* process (api/main.py:441-445 invokes the compiled graph once per turn). *)
(* The second is given what the first was given: the same retrieved        *)
(* documents at every attempt and the same answers of the classification   *)
(* and evaluation calls.  What query rewriting, generation and web search  *)
(* yield is free in both.                                                  *)
(***************************************************************************)

\* state.py:8-51 and graph.py:81-84: the graph's input schema is InputState,
\* and the graph is compiled without a checkpointer (graph.py:132), so an
\* invocation starts from the messages alone, every other field unset.
FreshAgentState ==
    /\ node = "query_classify"
    /\ query_classification = NoneStr
    /\ retry_count = NoneInt
    /\ original_query = NoneStr
    /\ rewritten_query = NoneStr
    /\ retrieved_docs = NoneDocs
    /\ retrieval_score = NoneInt
    /\ evaluation_result = NoneStr
    /\ evaluation_reason = NoneStr
    /\ ai_messages = <<>>
    /\ raised = FALSE
    /\ path = <<>>
    /\ retrievals = <<>>
    /\ evaluations = <<>>
    /\ evaluator_calls = 0
    /\ generate_calls = 0
    /\ inputs = <<>>
    /\ decisions = <<>>

ReplayInit ==
    /\ RouterIdle
    /\ RegistryIdle
    /\ SocketIdle
    /\ RestIdle
    /\ has_query \in BOOLEAN
    /\ FreshAgentState
    /\ run = 1
    /\ script = <<>>
    /\ trace = <<>>

\* A node of the first resolution runs.
FirstRun ==
    /\ run = 1
    /\ ResolverNext

\* The first resolution is over; the graph is invoked again on the same
\* messages.
StartSecond ==
    /\ run = 1
    /\ node = "END"
    /\ run' = 2
    /\ script' = inputs
    /\ trace' = decisions
    /\ node' = "query_classify"
    /\ query_classification' = NoneStr
    /\ retry_count' = NoneInt
    /\ original_query' = NoneStr
    /\ rewritten_query' = NoneStr
    /\ retrieved_docs' = NoneDocs
    /\ retrieval_score' = NoneInt
    /\ evaluation_result' = NoneStr
    /\ evaluation_reason' = NoneStr
    /\ ai_messages' = <<>>
    /\ raised' = FALSE
    /\ path' = <<>>
    /\ retrievals' = <<>>
    /\ evaluations' = <<>>
    /\ evaluator_calls' = 0
    /\ generate_calls' = 0
    /\ inputs' = <<>>
    /\ decisions' = <<>>
    /\ UNCHANGED has_query
    /\ UNCHANGED outside_session

\* A node of the second resolution runs, given what the first was given.
Replay ==
    /\ run = 2
    /\ ResolverNext
    /\ IsPrefix(inputs', script)

ReplayNext ==
    \/ FirstRun
    \/ StartSecond
    \/ Replay

ReplaySpec == ReplayInit /\ [][ReplayNext]_vars

\* One resolution, followed with the histories of what its nodes were given
\* and of the routes it took.
TracedSpec == ReplayInit /\ [][FirstRun]_vars

----------------------------------------------------------------------------
(***************************************************************************)
(* Concurrent chat completions in the monitor.  Each completion, once its  *)
(* result is in hand, calls LogDAL.get_or_create_model and then            *)
(* LogDAL.save_log (monitor.py:69-110, 140-169).  Each call of the DAL     *)
(* runs on a connection of its own with autocommit (connection.py:         *)
(* 142-169), and awaits every statement, so the statements of different    *)
(* completions interleave.                                                 *)
(***************************************************************************)

\* monitor.py:71, 141: str(uuid.uuid4()); the id made by completion w.
NewModelId(w) == w
\* The id of a row that instance i had before the completions followed here.
SeedId(i) == 0 - i

RegistryInit ==
    /\ RouterIdle
    /\ ResolverIdle
    /\ SessionIdle
    /\ SocketIdle
    /\ RestIdle
    /\ served \in [Workers -> Instances]
    /\ worker_pc = [w \in Workers |-> "select"]
    /\ model_rows \in {{[id |-> SeedId(i), instance_name |-> i] : i \in known} :
                          known \in SUBSET Instances}
    /\ returned_id = [w \in Workers |-> None]
    /\ log_rows = {}

\* repositories.py:389-393: the SELECT by instance_name and fetchone; a row
\* found ends the call with its id.
LookupModel ==
    \E w \in Workers :
        /\ worker_pc[w] = "select"
        /\ LET found == {r \in model_rows : r.instance_name = served[w]}
           IN  IF found # {}
                 THEN \E r \in found :
                          /\ returned_id' = [returned_id EXCEPT ![w] = r.id]
                          /\ worker_pc' = [worker_pc EXCEPT ![w] = "save"]
                 ELSE /\ worker_pc' = [worker_pc EXCEPT ![w] = "insert"]
                      /\ UNCHANGED returned_id
        /\ UNCHANGED <<served, model_rows, log_rows>>
        /\ UNCHANGED outside_registry

\* repositories.py:395-406: the INSERT of a row with the id the monitor made;
\* the function ends without a return statement.
RegisterModel ==
    \E w \in Workers :
        /\ worker_pc[w] = "insert"
        /\ model_rows' = model_rows \cup {[id |-> NewModelId(w),
                                            instance_name |-> served[w]]}
        /\ returned_id' = [returned_id EXCEPT ![w] = None]
        /\ worker_pc' = [worker_pc EXCEPT ![w] = "save"]
        /\ UNCHANGED <<served, log_rows>>
        /\ UNCHANGED outside_registry

\* connection.py:166-169: the statement raises; the error leaves the DAL and
\* is the monitor's to handle (GetOrCreateModelError).
RegisterModelError ==
    \E w \in Workers :
        /\ worker_pc[w] = "insert"
        /\ worker_pc' = [worker_pc EXCEPT ![w] = "raised"]
        /\ UNCHANGED <<served, model_rows, returned_id, log_rows>>
        /\ UNCHANGED outside_registry

\* monitor.py:97-110, 156-169: the success record, with the model_id the DAL
\* returned.
PersistLog ==
    \E w \in Workers :
        /\ worker_pc[w] = "save"
        /\ log_rows' = log_rows \cup {[call |-> w, model_id |-> returned_id[w],
                                        status |-> "success"]}
        /\ worker_pc' = [worker_pc EXCEPT ![w] = "done"]
        /\ UNCHANGED <<served, model_rows, returned_id>>
        /\ UNCHANGED outside_registry

RegistryNext ==
    \/ LookupModel
    \/ RegisterModel
    \/ RegisterModelError
    \/ PersistLog

RegistrySpec == RegistryInit /\ [][RegistryNext]_vars

----------------------------------------------------------------------------
(***************************************************************************)
(* One turn of the WebSocket endpoint: process_chat_message of             *)
(* api/main.py, from the start marker to its return.  The graph is seen    *)
(* from the turn: it calls the stream callback some number of times and    *)
(* returns or raises.  The client may disconnect at any await.             *)
(***************************************************************************)

\* What websocket.send_json can do: return, raise WebSocketDisconnect once
\* the client is gone, or raise another exception.
SendOutcomes == IF connected THEN {"ok", "error"} ELSE {"disconnect", "error"}

\* History: a send_json of a message of the given type was attempted.
TrySend(type, outcome) ==
    sends' = Append(sends, [type |-> type, outcome |-> outcome])

SocketInit ==
    /\ RouterIdle
    /\ ResolverIdle
    /\ SessionIdle
    /\ RegistryIdle
    /\ RestIdle
    /\ ws_pc = "start"
    /\ connected = TRUE
    /\ stream_aborted = FALSE
    /\ callback_calls = 0
    /\ callback_raised = FALSE
    /\ sends = <<>>

\* The client closes the connection.
ClientDisconnect ==
    /\ ws_pc \notin {"idle", "done"}
    /\ connected
    /\ connected' = FALSE
    /\ UNCHANGED <<ws_pc, stream_aborted, callback_calls, callback_raised, sends>>
    /\ UNCHANGED outside_socket

\* main.py:397-404, 501-502: loading the history raises.
LoadHistoryError ==
    /\ ws_pc = "start"
    /\ ws_pc' = "error"
    /\ UNCHANGED <<connected, stream_aborted, callback_calls, callback_raised,
                   sends>>
    /\ UNCHANGED outside_socket

\* main.py:406-414: the start marker; a disconnect ends the turn.
SendStart ==
    /\ ws_pc = "start"
    /\ \E outcome \in SendOutcomes :
         /\ TrySend("start", outcome)
         /\ ws_pc' = CASE outcome = "ok" -> "graph"
                       [] outcome = "disconnect" -> "done"
                       [] outcome = "error" -> "error"
    /\ UNCHANGED <<connected, stream_aborted, callback_calls, callback_raised>>
    /\ UNCHANGED outside_socket

\* A callback that does not look at the flag before it sends.
stream_token_callback_NoFlag ==
    /\ ws_pc = "graph"
    /\ callback_calls < MaxTokens
    /\ callback_calls' = callback_calls + 1
    /\ \E outcome \in SendOutcomes :
         /\ TrySend("token", outcome)
         /\ stream_aborted' = (stream_aborted \/ outcome # "ok")
    /\ UNCHANGED <<ws_pc, connected, callback_raised>>
    /\ UNCHANGED outside_socket

\* main.py:419-438: the graph calls the callback with a token.
stream_token_callback ==
    /\ ws_pc = "graph"
    /\ callback_calls < MaxTokens
    /\ callback_calls' = callback_calls + 1
    /\ IF stream_aborted
         THEN UNCHANGED <<sends, stream_aborted>>
         ELSE \E outcome \in SendOutcomes :
              /\ TrySend("token", outcome)
              /\ stream_aborted' = (outcome # "ok")
    /\ UNCHANGED <<ws_pc, connected, callback_raised>>
    /\ UNCHANGED outside_socket

\* main.py:441-461: ainvoke returns, with an AIMessage that has content or
\* without; an aborted stream ends the turn here.
GraphReturns ==
    /\ ws_pc = "graph"
    /\ \E answered \in BOOLEAN :
         ws_pc' = IF stream_aborted THEN "done"
                  ELSE IF answered THEN "end"
                  ELSE "default"
    /\ UNCHANGED <<connected, stream_aborted, callback_calls, callback_raised,
                   sends>>
    /\ UNCHANGED outside_socket

\* main.py:441-445, 501-502: ainvoke raises.
GraphRaises ==
    /\ ws_pc = "graph"
    /\ ws_pc' = "error"
    /\ UNCHANGED <<connected, stream_aborted, callback_calls, callback_raised,
                   sends>>
    /\ UNCHANGED outside_socket

\* main.py:463-472: the default answer, sent as a token.
SendDefault ==
    /\ ws_pc = "default"
    /\ \E outcome \in SendOutcomes :
         /\ TrySend("token", outcome)
         /\ ws_pc' = CASE outcome = "ok" -> "end"
                       [] outcome = "disconnect" -> "done"
                       [] outcome = "error" -> "error"
    /\ UNCHANGED <<connected, stream_aborted, callback_calls, callback_raised>>
    /\ UNCHANGED outside_socket

\* main.py:474-484: the end marker; after a disconnect the turn is still
\* saved.
SendEnd ==
    /\ ws_pc = "end"
    /\ \E outcome \in SendOutcomes :
         /\ TrySend("end", outcome)
         /\ ws_pc' = IF outcome = "error" THEN "error" ELSE "save"
    /\ UNCHANGED <<connected, stream_aborted, callback_calls, callback_raised>>
    /\ UNCHANGED outside_socket

\* main.py:486-499: the turn is saved (save_conversation_turn answers with a
\* flag).
SaveTurn ==
    /\ ws_pc = "save"
    /\ ws_pc' = "done"
    /\ UNCHANGED <<connected, stream_aborted, callback_calls, callback_raised,
                   sends>>
    /\ UNCHANGED outside_socket

\* main.py:501-518: the error message, whose own failure is swallowed.
SendError ==
    /\ ws_pc = "error"
    /\ \E outcome \in SendOutcomes : TrySend("error", outcome)
    /\ ws_pc' = "done"
    /\ UNCHANGED <<connected, stream_aborted, callback_calls, callback_raised>>
    /\ UNCHANGED outside_socket

SocketNext ==
    \/ ClientDisconnect
    \/ LoadHistoryError
    \/ SendStart
    \/ stream_token_callback
    \/ GraphReturns
    \/ GraphRaises
    \/ SendDefault
    \/ SendEnd
    \/ SaveTurn
    \/ SendError

SocketSpec == SocketInit /\ [][SocketNext]_vars

----------------------------------------------------------------------------
(***************************************************************************)
(* calculate_retrieval_quality (tools/rag/rag.py) applied once to a list   *)
(* of documents whose scores lie in [0, 1], in whatever order the caller   *)
(* passes them.                                                            *)
(***************************************************************************)

\* Scores in [0, 1], in tenths.
UnitScores == 0..10

QualityInit ==
    /\ RouterIdle
    /\ ResolverIdle
    /\ SessionIdle
    /\ RegistryIdle
    /\ SocketIdle
    /\ SharedIdle
    /\ MemoryIdle
    /\ quality_docs \in UNION {[1..n -> UnitScores] : n \in 0..MaxDocs}
    /\ quality_score = NoScore

\* rag.py:390-444: the function returns 0.0 for no documents (413-414) and
\* the weighted sum otherwise (432-436).
ScoreDocuments ==
    /\ ~quality_score.done
    /\ quality_score' =
           [done |-> TRUE,
            num |-> QualityNum(quality_docs),
            den |-> IF quality_docs = <<>> THEN 1 ELSE QualityDen(quality_docs)]
    /\ UNCHANGED quality_docs
    /\ UNCHANGED outside_quality

QualityNext ==
    \/ ScoreDocuments

QualitySpec == QualityInit /\ [][QualityNext]_vars

----------------------------------------------------------------------------
(***************************************************************************)
(* MemoryManager.save_conversation_turn (memory/memory.py) called once per *)
(* turn of one session.  Its three DAL calls run under use_sync_connection *)
(* (connection.py:99-138), which catches every exception of the call,      *)
(* rolls back and returns None.                                            *)
(***************************************************************************)

MemoryInit ==
    /\ RouterIdle
    /\ ResolverIdle
    /\ SessionIdle
    /\ RegistryIdle
    /\ SocketIdle
    /\ QualityIdle
    /\ SharedIdle
    /\ mem_pc = "ready"
    /\ session_exists \in BOOLEAN
    /\ message_count = 0
    /\ stored_turns = <<>>
    /\ turn_number = None
    /\ inserted = FALSE
    /\ saves = <<>>

\* memory.py:153-156 and repositories.py:174-181: message_count + 1, or 1
\* without a session row; None when the call failed inside the decorator.
get_next_turn_number ==
    /\ mem_pc = "ready"
    /\ Len(saves) < MaxTurns
    /\ \E ok \in BOOLEAN :
         turn_number' = IF ~ok THEN None
                        ELSE IF session_exists THEN message_count + 1
                        ELSE 1
    /\ mem_pc' = "insert"
    /\ inserted' = FALSE
    /\ UNCHANGED <<session_exists, message_count, stored_turns, saves>>
    /\ UNCHANGED outside_memory

\* memory.py:158-162, repositories.py:164-171 and connection.py:112-133: the
\* INSERT is committed, or it fails, is rolled back and the call returns
\* None; the save goes on either way.
add_conversation_turn ==
    /\ mem_pc = "insert"
    /\ \E ok \in BOOLEAN :
         IF ok
           THEN /\ stored_turns' = Append(stored_turns, turn_number)
                /\ inserted' = TRUE
           ELSE UNCHANGED <<stored_turns, inserted>>
    /\ mem_pc' = "update"
    /\ UNCHANGED <<session_exists, message_count, turn_number, saves>>
    /\ UNCHANGED outside_memory

\* memory.py:164-168 and repositories.py:154-162: message_count of the
\* session row is incremented, or the UPDATE fails inside the decorator;
\* save_conversation_turn then returns True.
update_session_activity ==
    /\ mem_pc = "update"
    /\ \E ok \in BOOLEAN :
         message_count' = IF ok /\ session_exists THEN message_count + 1
                          ELSE message_count
    /\ saves' = Append(saves, [inserted |-> inserted, returned |-> TRUE])
    /\ mem_pc' = "ready"
    /\ UNCHANGED <<session_exists, stored_turns, turn_number, inserted>>
    /\ UNCHANGED outside_memory

MemoryNext ==
    \/ get_next_turn_number
    \/ add_conversation_turn
    \/ update_session_activity

MemorySpec == MemoryInit /\ [][MemoryNext]_vars

----------------------------------------------------------------------------
(***************************************************************************)
(* Concurrent chat calls on the one ModelRouter of the process             *)
(* (nodes.py:20-31: get_router returns the module's singleton).  Every     *)
(* call is a coroutine of ModelRouter.chat (router.py:117-230) that gives  *)
(* way at each await; self.models, self.instances and self.adapters are    *)
(* only read.  The monitor around the calls is left out.                   *)
(***************************************************************************)

SharedInit ==
    /\ RouterIdle
    /\ ResolverIdle
    /\ SessionIdle
    /\ RegistryIdle
    /\ SocketIdle
    /\ QualityIdle
    /\ MemoryIdle
    /\ shared_adapters \in SUBSET Instances
    /\ c_stream \in [Calls -> BOOLEAN]
    /\ c_pc = [c \in Calls |-> "loop"]
    /\ c_idx = [c \in Calls |-> 1]
    /\ c_events = [c \in Calls |-> <<>>]
    /\ c_metadata = [c \in Calls |-> None]
    /\ c_attempts = [c \in Calls |-> <<>>]

\* router.py:130-140, 177-187: no adapter for the instance.
CallSkip ==
    \E c \in Calls :
        /\ c_pc[c] = "loop"
        /\ c_idx[c] <= NumInstances
        /\ instance_names[c_idx[c]] \notin shared_adapters
        /\ c_events' = [c_events EXCEPT
                           ![c] = Append(@, SkippedEvent(instance_names[c_idx[c]]))]
        /\ c_idx' = [c_idx EXCEPT ![c] = @ + 1]
        /\ UNCHANGED <<shared_adapters, c_stream, c_pc, c_metadata, c_attempts>>
        /\ UNCHANGED outside_shared

\* router.py:142-154: the adapter answers a non-streaming call.
CallSuccess ==
    \E c \in Calls :
        /\ c_pc[c] = "loop"
        /\ ~c_stream[c]
        /\ c_idx[c] <= NumInstances
        /\ instance_names[c_idx[c]] \in shared_adapters
        /\ c_attempts' = [c_attempts EXCEPT
                             ![c] = Append(@, instance_names[c_idx[c]])]
        /\ c_events' = [c_events EXCEPT
                           ![c] = Append(@, SuccessEvent(instance_names[c_idx[c]]))]
        /\ c_pc' = [c_pc EXCEPT ![c] = "done"]
        /\ UNCHANGED <<shared_adapters, c_stream, c_idx, c_metadata>>
        /\ UNCHANGED outside_shared

\* A failure recorded in a list that all calls of the router share.
CallFail_SharedLog ==
    \E c \in Calls :
        /\ c_pc[c] = "loop"
        /\ c_idx[c] <= NumInstances
        /\ instance_names[c_idx[c]] \in shared_adapters
        /\ c_attempts' = [c_attempts EXCEPT
                             ![c] = Append(@, instance_names[c_idx[c]])]
        /\ c_events' = [d \in Calls |->
                           Append(c_events[d], FailedEvent(instance_names[c_idx[c]]))]
        /\ c_idx' = [c_idx EXCEPT ![c] = @ + 1]
        /\ UNCHANGED <<shared_adapters, c_stream, c_pc, c_metadata>>
        /\ UNCHANGED outside_shared

\* router.py:142-144, 156-164 and 189-194, 213-221: adapter.chat raises.
CallFail ==
    \E c \in Calls :
        /\ c_pc[c] = "loop"
        /\ c_idx[c] <= NumInstances
        /\ instance_names[c_idx[c]] \in shared_adapters
        /\ c_attempts' = [c_attempts EXCEPT
                             ![c] = Append(@, instance_names[c_idx[c]])]
        /\ c_events' = [c_events EXCEPT
                           ![c] = Append(@, FailedEvent(instance_names[c_idx[c]]))]
        /\ c_idx' = [c_idx EXCEPT ![c] = @ + 1]
        /\ UNCHANGED <<shared_adapters, c_stream, c_pc, c_metadata>>
        /\ UNCHANGED outside_shared

\* router.py:189-205: the adapter hands a streaming call its generator; the
\* call's metadata dict and its failover_events list are written.
CallOpen ==
    \E c \in Calls :
        /\ c_pc[c] = "loop"
        /\ c_stream[c]
        /\ c_idx[c] <= NumInstances
        /\ instance_names[c_idx[c]] \in shared_adapters
        /\ c_attempts' = [c_attempts EXCEPT
                             ![c] = Append(@, instance_names[c_idx[c]])]
        /\ c_metadata' = [c_metadata EXCEPT ![c] = instance_names[c_idx[c]]]
        /\ c_events' = [c_events EXCEPT
                           ![c] = Append(@, SuccessEvent(instance_names[c_idx[c]]))]
        /\ c_pc' = [c_pc EXCEPT ![c] = "iter"]
        /\ UNCHANGED <<shared_adapters, c_stream, c_idx>>
        /\ UNCHANGED outside_shared

\* router.py:207-208, 213-221: the adapter's stream raises.
CallStreamFail ==
    \E c \in Calls :
        /\ c_pc[c] = "iter"
        /\ c_events' = [c_events EXCEPT
                           ![c] = Append(@, FailedEvent(instance_names[c_idx[c]]))]
        /\ c_idx' = [c_idx EXCEPT ![c] = @ + 1]
        /\ c_pc' = [c_pc EXCEPT ![c] = "loop"]
        /\ UNCHANGED <<shared_adapters, c_stream, c_metadata, c_attempts>>
        /\ UNCHANGED outside_shared

\* router.py:207-211: the adapter's stream is exhausted.
CallStreamEnd ==
    \E c \in Calls :
        /\ c_pc[c] = "iter"
        /\ c_pc' = [c_pc EXCEPT ![c] = "done"]
        /\ UNCHANGED <<shared_adapters, c_stream, c_idx, c_events, c_metadata,
                       c_attempts>>
        /\ UNCHANGED outside_shared

\* router.py:166, 223: every instance was skipped or failed.
CallExhausted ==
    \E c \in Calls :
        /\ c_pc[c] = "loop"
        /\ c_idx[c] > NumInstances
        /\ c_pc' = [c_pc EXCEPT ![c] = "raised"]
        /\ UNCHANGED <<shared_adapters, c_stream, c_idx, c_events, c_metadata,
                       c_attempts>>
        /\ UNCHANGED outside_shared

SharedNext ==
    \/ CallSkip
    \/ CallSuccess
    \/ CallFail
    \/ CallOpen
    \/ CallStreamFail
    \/ CallStreamEnd
    \/ CallExhausted

SharedSpec == SharedInit /\ [][SharedNext]_vars

----------------------------------------------------------------------------
\* Helpers of the properties.
\* The first k adapter calls failed and call k+1 succeeded.
FirstKFailThenSuccess(k) ==
    /\ Len(attempts) = k + 1
    /\ \A j \in 1..k : attempts[j] = [inst |-> instance_names[j], ok |-> FALSE]
    /\ attempts[k + 1] = [inst |-> instance_names[k + 1], ok |-> TRUE]

\* The log has exactly k+1 events: k failed, then one success, in order.
LogIsKFailedThenSuccess(k) ==
    /\ Len(failover_events) = k + 1
    /\ \A j \in 1..k : /\ failover_events[j].status = "failed"
                       /\ failover_events[j].instance_name = instance_names[j]
    /\ failover_events[k + 1].status = "success"
    /\ failover_events[k + 1].instance_name = instance_names[k + 1]

\* The log store raised no error during the call.
NoDbError == handled # DbError /\ caller_outcome.error # DbError

\* C1: in non-streaming chat the adapters are invoked strictly in configured
\* order, every instance that has an adapter and precedes the loop position
\* has been invoked, a successful adapter call is always the last call made
\* (no later instance is invoked after it), the router returns the result of
\* that instance, and a result handed to the caller is that same result.
C1_FirstSuccessWins ==
    (call = "chat" /\ ~stream) =>
        /\ \A m, n \in 1..Len(attempts) :
               m < n => attempts[m].inst < attempts[n].inst
        /\ \A i \in adapters :
               i < idx => \E m \in 1..Len(attempts) : attempts[m].inst = i
        /\ \A m \in 1..Len(attempts) :
               attempts[m].ok =>
                   /\ m = Len(attempts)
                   /\ router_outcome.kind = "return"
                   /\ router_outcome.instance = attempts[m].inst
        /\ caller_outcome.kind = "return" =>
               /\ router_outcome.kind = "return"
               /\ caller_outcome.instance = router_outcome.instance

\* C1 witness: a non-streaming call ended with the result of the second
\* instance after the first one failed, while a later instance that has an
\* adapter was never invoked.
C1_Witness ==
    /\ call = "chat"
    /\ ~stream
    /\ pc = "done"
    /\ Len(attempts) = 2
    /\ ~attempts[1].ok
    /\ attempts[2].ok
    /\ caller_outcome.kind = "return"
    /\ caller_outcome.instance = attempts[2].inst
    /\ \E i \in adapters : i > attempts[2].inst

\* C2: in non-streaming chat over instances that all have adapters, when the
\* first K adapter calls fail and call K+1 succeeds, the router returns from
\* instance K+1 with a failover log of exactly K+1 events, events 1..K failed
\* and event K+1 success.
C2_FailoverLogShape ==
    \A k \in 0..(NumInstances - 1) :
        (/\ call = "chat"
         /\ ~stream
         /\ adapters = Instances
         /\ FirstKFailThenSuccess(k)) =>
            /\ router_outcome.kind = "return"
            /\ router_outcome.instance = instance_names[k + 1]
            /\ LogIsKFailedThenSuccess(k)

\* C2 witness: two instances failed, the third succeeded and the call is over.
C2_Witness ==
    /\ call = "chat"
    /\ ~stream
    /\ adapters = Instances
    /\ FirstKFailThenSuccess(2)
    /\ pc = "done"
    /\ caller_outcome.kind = "return"
    /\ Len(failover_events) = 3

\* C3 (as claimed): in streaming chat over instances that all have adapters,
\* when the first K instances fail before yielding a chunk and instance K+1
\* streams to completion, the failover log has exactly K+1 events, K failed
\* then one success, so that no instance is in the log twice.
C3_StreamFailoverLogShape ==
    (/\ stream
     /\ adapters = Instances
     /\ router_outcome.kind = "stream_end"
     /\ delivered # <<>>
     /\ \A j \in 1..Len(delivered) : delivered[j].inst = router_outcome.instance) =>
        LogIsKFailedThenSuccess(router_outcome.instance - 1)

\* C4 (as claimed): in streaming chat, after an instance has had a chunk
\* forwarded to the consumer no later instance is invoked, and when such an
\* instance failed the finished stream has ended with an error.
C4_NoFailoverAfterFirstChunk ==
    stream =>
        /\ \A j \in 1..Len(delivered) : \A m \in 1..Len(attempts) :
               attempts[m].inst <= delivered[j].inst
        /\ (/\ pc = "done"
            /\ caller_outcome.kind # "abandoned"
            /\ \E j \in 1..Len(delivered) : \E e \in 1..Len(failover_events) :
                   /\ failover_events[e].status = "failed"
                   /\ failover_events[e].instance_name = delivered[j].inst)
               => caller_outcome.kind = "raise"

\* C5 (as claimed): when every instance of a non-streaming call is skipped or
\* fails, the raised error carries the last adapter error and the full
\* failover log.
C5_ErrorCarriesLog ==
    (call = "chat" /\ model_known /\ ~stream /\ router_outcome.kind = "raise") =>
        /\ router_outcome.error.type = "all_failed"
        /\ router_outcome.error.cause = last_exception
        /\ "failover_events" \in DOMAIN router_outcome.error
        /\ router_outcome.error.failover_events = failover_events

\* C6 (as claimed): when all N instances of a non-streaming call fail, the
\* CallRecord persisted for the call is a single one, with status failure,
\* no resolved instance and a failover-event list of length N.  Stated for
\* the calls during which the log store raised no error.
C6_FailureRecordHasEvents ==
    (/\ call = "chat"
     /\ ~stream
     /\ pc = "done"
     /\ NoDbError
     /\ Len(attempts) = NumInstances
     /\ \A m \in 1..Len(attempts) : ~attempts[m].ok) =>
        /\ Len(logs) = 1
        /\ logs[1].status = "failure"
        /\ logs[1].model_id = FailureModelId
        /\ logs[1].failover_events.present
        /\ Len(logs[1].failover_events.events) = NumInstances

\* C7 (as claimed): when every instance of a streaming call fails before any
\* chunk, the consumer receives the all-instances-failed error and a
\* CallRecord with status failure is persisted.
C7_StreamFailureLogged ==
    (/\ stream
     /\ pc = "done"
     /\ router_outcome.kind = "raise"
     /\ Len(attempts) = NumInstances
     /\ delivered = <<>>) =>
        /\ caller_outcome.kind = "raise"
        /\ caller_outcome.error.type = "all_failed"
        /\ Len(logs) = 1
        /\ logs[1].status = "failure"

\* C8 (as claimed): every chat call that reached its terminal outcome has
\* exactly one persisted CallRecord.  Stated for the calls during which the
\* log store raised no error.
C8_ExactlyOneRecord ==
    (/\ call = "chat"
     /\ pc = "done"
     /\ caller_outcome.kind # "abandoned"
     /\ NoDbError) => Len(logs) = 1

\* C9 (as claimed): a failure of the log store does not change the outcome:
\* the caller gets the router's result when the router succeeded and the
\* router's error when the router failed.
C9_LoggingNeverShadows ==
    (call = "chat" /\ pc = "done") =>
        /\ router_outcome.kind = "return" =>
               /\ caller_outcome.kind = "return"
               /\ caller_outcome.instance = router_outcome.instance
        /\ router_outcome.kind = "stream_end" => caller_outcome.kind = "stream_end"
        /\ router_outcome.kind = "raise" =>
               /\ caller_outcome.kind = "raise"
               /\ caller_outcome.error = router_outcome.error

\* C10 (as claimed): the stream metadata is written at most once per request
\* and never for an instance whose stream is over without a chunk.
C10_MetadataWriteOnce ==
    stream =>
        /\ Len(metadata_writes) <= 1
        /\ (metadata # None /\ pc # "iter" /\ caller_outcome.kind # "abandoned") =>
               \E j \in 1..Len(delivered) : delivered[j].inst = metadata

\* C11 (as claimed): after a streaming call was drained to a successful end,
\* the public accessors of the handle the caller holds give the serving
\* instance and the failover events of the call.
C11_HandleExposesMetadata ==
    (/\ call = "chat"
     /\ stream
     /\ pc = "done"
     /\ caller_outcome.kind = "stream_end"
     /\ delivered # <<>>) =>
        /\ get_metadata = router_outcome.instance
        /\ get_failover_events = failover_events

\* C12 (as claimed): embed invokes the adapters in configured order, returns
\* the result of the first adapter call that succeeds, and when adapters
\* were invoked and every one of them failed the call ends in an error and
\* does not return normally.
C12_EmbedFailover ==
    (call = "embed" /\ model_known) =>
        /\ \A m, n \in 1..Len(attempts) :
               m < n => attempts[m].inst < attempts[n].inst
        /\ \A m \in 1..Len(attempts) :
               attempts[m].ok =>
                   /\ m = Len(attempts)
                   /\ caller_outcome.kind = "return"
                   /\ caller_outcome.instance = attempts[m].inst
        /\ (/\ pc = "done"
            /\ attempts # <<>>
            /\ \A m \in 1..Len(attempts) : ~attempts[m].ok) =>
               caller_outcome.kind = "raise"

\* C13: a chat call (either mode) or an embed call naming a logical model
\* that is not configured invokes no adapter, records no failover event,
\* delivers nothing, never moves to a further instance, and the router method
\* raises the configuration error; the caller gets no result and no handle,
\* and once the call is over the caller has an error, the configuration
\* error itself whenever the log store raised none.
C13_UnknownModelFailsImmediately ==
    ~model_known =>
        /\ attempts = <<>>
        /\ failover_events = <<>>
        /\ delivered = <<>>
        /\ idx = 1
        /\ ~handle.exists
        /\ caller_outcome.kind \in {"none", "raise"}
        /\ pc # "entry" =>
               /\ router_outcome.kind = "raise"
               /\ router_outcome.error = ConfigError
        /\ pc = "done" =>
               /\ caller_outcome.kind = "raise"
               /\ NoDbError => caller_outcome.error = ConfigError

\* C13 witness: a streaming chat call for an unknown model is over, the
\* caller holds the configuration error, no adapter was touched although
\* every instance has one.
C13_Witness ==
    /\ ~model_known
    /\ call = "chat"
    /\ stream
    /\ adapters = Instances
    /\ pc = "done"
    /\ caller_outcome.kind = "raise"
    /\ caller_outcome.error = ConfigError
    /\ attempts = <<>>

\* C14: in both chat modes an instance without an adapter is never invoked;
\* once the loop has passed it the failover log holds exactly one event for
\* it, a skipped event, placed after the events of all earlier instances and
\* before those of all later ones; before that the log holds none; and every
\* later instance the loop has passed that has an adapter was invoked.  In a
\* non-streaming call the skipped event is the entry at the instance's own
\* index.
C14_MissingAdapterSkipped ==
    call = "chat" =>
        \A i \in Instances \ adapters :
            /\ \A m \in 1..Len(attempts) : attempts[m].inst # i
            /\ i >= idx =>
                   \A e \in 1..Len(failover_events) :
                       failover_events[e].instance_name # i
            /\ i < idx =>
                   /\ Cardinality({e \in 1..Len(failover_events) :
                                      failover_events[e].instance_name = i}) = 1
                   /\ \A e \in 1..Len(failover_events) :
                          failover_events[e].instance_name = i =>
                              /\ failover_events[e] = SkippedEvent(i)
                              /\ \A f \in 1..Len(failover_events) :
                                     /\ f < e => failover_events[f].instance_name < i
                                     /\ f > e => failover_events[f].instance_name > i
                   /\ ~stream => failover_events[i] = SkippedEvent(i)
                   /\ \A j \in adapters :
                          (i < j /\ j < idx) =>
                              \E m \in 1..Len(attempts) : attempts[m].inst = j

\* C14 witness: the second instance has no adapter; the first one failed,
\* the second was skipped and the third answered.
C14_Witness ==
    /\ call = "chat"
    /\ ~stream
    /\ pc = "done"
    /\ adapters = Instances \ {2}
    /\ failover_events = <<FailedEvent(1), SkippedEvent(2), SuccessEvent(3)>>
    /\ attempts = <<[inst |-> 1, ok |-> FALSE], [inst |-> 3, ok |-> TRUE]>>
    /\ caller_outcome.kind = "return"
    /\ caller_outcome.instance = 3

\* C15 (as claimed): every embed call for a configured model that invoked
\* an adapter and is over has exactly one persisted CallRecord, of type
\* embed.
C15_EmbedRecorded ==
    (call = "embed" /\ model_known /\ attempts # <<>> /\ pc = "done") =>
        /\ Len(logs) = 1
        /\ logs[1].type = "embed"

----------------------------------------------------------------------------
\* Properties of the query resolver.

\* How often a node occurs in the path.
Passes(n) == Cardinality({k \in 1..Len(path) : path[k] = n})

\* The eight intermediate fields are None.
IntermediateCleared ==
    /\ query_classification = NoneStr
    /\ retry_count = NoneInt
    /\ original_query = NoneStr
    /\ rewritten_query = NoneStr
    /\ retrieved_docs = NoneDocs
    /\ retrieval_score = NoneInt
    /\ evaluation_result = NoneStr
    /\ evaluation_reason = NoneStr

\* Every retrieval made so far came back without documents.
EveryRetrievalEmpty ==
    /\ retrievals # <<>>
    /\ \A k \in 1..Len(retrievals) : retrievals[k].size = 0

\* C16: in every reachable state of a resolution retry_count is at most
\* MAX_RETRY, whatever the evaluator answers (rewrite every time, failure
\* every time, anything else), and every evaluation started with a
\* retry_count of at most MAX_RETRY.
C16_RetryCountBounded ==
    /\ retry_count <= MAX_RETRY
    /\ \A k \in 1..Len(evaluations) : evaluations[k].retry_count <= MAX_RETRY

\* C16 witness: the evaluator asked for a rewrite of a non-empty retrieval a
\* third time, retry_count already was MAX_RETRY, and the verdict was turned
\* into pass with retry_count unchanged.
C16_Witness ==
    /\ node = "llm_generate"
    /\ retry_count = MAX_RETRY
    /\ Len(evaluations) = MAX_RETRY + 1
    /\ evaluations[MAX_RETRY + 1] =
           [result |-> "pass", retry_count |-> MAX_RETRY, empty |-> FALSE]
    /\ evaluator_calls = MAX_RETRY + 1

\* C17: every resolution reaches END, and no resolution passes through
\* knowledge_base or through rag_evaluation more than MAX_RETRY + 1 times.
C17_Terminates ==
    /\ <>(node = "END")
    /\ [](/\ Passes("knowledge_base") <= MAX_RETRY + 1
          /\ Passes("rag_evaluation") <= MAX_RETRY + 1)

\* C17 witness: a resolution is over after MAX_RETRY + 1 passes through
\* knowledge_base and rag_evaluation.
C17_Witness ==
    /\ node = "END"
    /\ Passes("knowledge_base") = MAX_RETRY + 1
    /\ Passes("rag_evaluation") = MAX_RETRY + 1

C19_AlwaysOneAnswer ==
    has_query =>
        /\ ~raised
        /\ node # "END" => ai_messages = <<>>
        /\ node = "END" => Len(ai_messages) = 1

\* C19 witness: the retrieval found documents, the evaluation call and the
\* generation call both failed, and the resolution ended with the answer
\* built from the first document.
C19_Witness ==
    /\ has_query
    /\ node = "END"
    /\ ~raised
    /\ generate_calls = 1
    /\ evaluator_calls >= 1
    /\ ai_messages = <<"first_document_fallback">>

\* The run of a finished resolution whose retrievals were all empty, as the
\* scenario describes it: three retrievals at retry_count 0, 1, 2, no
\* evaluator call, a third evaluation that passes at the retry limit, and
\* the empty-document fallback from llm_generate without a generation call.
EmptyRetrievalRun ==
    /\ Len(retrievals) = MAX_RETRY + 1
    /\ \A k \in 1..Len(retrievals) : retrievals[k].retry_count = k - 1
    /\ evaluator_calls = 0
    /\ Len(evaluations) = MAX_RETRY + 1
    /\ \A k \in 1..MAX_RETRY :
           evaluations[k] = [result |-> "rewrite", retry_count |-> k - 1,
                             empty |-> TRUE]
    /\ evaluations[MAX_RETRY + 1] =
           [result |-> "pass", retry_count |-> MAX_RETRY, empty |-> TRUE]
    /\ path[Len(path)] = "llm_generate"
    /\ generate_calls = 0
    /\ ai_messages = <<"no_documents_fallback">>

\* C20 (as claimed): a finished resolution whose retrievals all returned no
\* documents made exactly three retrievals at retry_count 0, 1, 2, never
\* consulted the evaluator model, passed its third evaluation by force and
\* ended in llm_generate with the empty-document fallback and no generation
\* call.
C20_EmptyRetrievalScenario ==
    (node = "END" /\ EveryRetrievalEmpty) => EmptyRetrievalRun

\* C20 (amended): the same, for the resolutions in which the classifier sent
\* every pass, the retries included, to knowledge_base.
C20_EmptyRetrievalScenario_KbOnly ==
    (/\ node = "END"
     /\ EveryRetrievalEmpty
     /\ Passes("web_search") = 0
     /\ Passes("end") = 0) => EmptyRetrievalRun

\* C20 witness: such a resolution is over.
C20_Witness ==
    /\ node = "END"
    /\ EveryRetrievalEmpty
    /\ Len(retrievals) = MAX_RETRY + 1
    /\ Passes("query_classify") = MAX_RETRY + 1
    /\ ai_messages = <<"no_documents_fallback">>

\* The nodes that answer the turn.
TerminalNodes == {"llm_generate", "web_search", "end"}
TerminalPasses ==
    Passes("llm_generate") + Passes("web_search") + Passes("end")

\* C21: a resolution never runs more than one of llm_generate, web_search and
\* end, nor one of them twice, and a finished resolution has run exactly one
\* of them, as its last node.  Until the first evaluation and whenever the
\* first evaluation passed, retry_count is 0 (or unset); when the first
\* evaluation passed there is one evaluation, one pass through knowledge_base
\* with one retrieval, and the terminal node is llm_generate.
C21_OneTerminalNode ==
    /\ TerminalPasses <= 1
    /\ node = "END" =>
           /\ TerminalPasses = 1
           /\ path[Len(path)] \in TerminalNodes
    /\ \A k \in 1..Len(path) : path[k] \in TerminalNodes => k = Len(path)
    /\ (evaluations = <<>> \/ evaluations[1].result = "pass") =>
           OrZero(retry_count) = 0
    /\ (evaluations # <<>> /\ evaluations[1].result = "pass") =>
           /\ Len(evaluations) = 1
           /\ Passes("knowledge_base") = 1
           /\ Len(retrievals) = 1
           /\ retrievals[1].retry_count = 0
           /\ Passes("web_search") = 0
           /\ Passes("end") = 0
           /\ node \in {"llm_generate", "END"}
           /\ node = "END" => Passes("llm_generate") = 1

\* C21 witness: the first evaluation passed a non-empty retrieval and the
\* resolution ended in llm_generate.
C21_Witness ==
    /\ node = "END"
    /\ path = <<"query_classify", "knowledge_base", "rag_evaluation",
                "llm_generate">>
    /\ evaluations = <<[result |-> "pass", retry_count |-> 0, empty |-> FALSE]>>
    /\ Len(retrievals) = 1
    /\ ai_messages = <<"answer">>

\* The transitions the property allows, END standing for Done.
GraphEdges ==
    {<<"query_classify", "knowledge_base">>, <<"query_classify", "web_search">>,
     <<"query_classify", "end">>, <<"knowledge_base", "rag_evaluation">>,
     <<"rag_evaluation", "llm_generate">>, <<"rag_evaluation", "query_classify">>,
     <<"llm_generate", "END">>, <<"web_search", "END">>, <<"end", "END">>}

\* C24: every step of a resolution goes along an edge of the graph, and the
\* step from rag_evaluation back to query_classify is taken only with the
\* evaluation result rewrite.
C24_OnlyGraphTransitions ==
    [][/\ <<node, node'>> \in GraphEdges
       /\ (node = "rag_evaluation" /\ node' = "query_classify") =>
              evaluation_result' = "rewrite"]_vars

\* C24 witness: a resolution went from rag_evaluation back to query_classify
\* and ended in web_search.
C24_Witness ==
    /\ node = "END"
    /\ path = <<"query_classify", "knowledge_base", "rag_evaluation",
                "query_classify", "web_search">>
    /\ evaluations[1].result = "rewrite"

----------------------------------------------------------------------------
\* Further properties of the router call.

\* C25 (as claimed): the chunks delivered to the consumer of a streaming chat
\* call are the first chunks of one single instance's stream, in its order.
C25_ChunksFromOneInstance ==
    (call = "chat" /\ stream) =>
        \E i \in Instances :
            \A j \in 1..Len(delivered) : delivered[j] = [inst |-> i, seq |-> j]

\* An event that stands for an adapter invocation.
IsAttemptEvent(e) == e.status # "skipped"

\* C26: during a chat call every step leaves the failover log as it is or
\* appends to it; the instance names in the log are in configured order; the
\* instances named by its events other than skipped are the instances
\* attempted, which were attempted in configured order; and in a
\* non-streaming call those events name, one by one, the attempts made.
C26_FailoverLogAppendOnly ==
    /\ [][call = "chat" => IsPrefix(failover_events, failover_events')]_vars
    /\ [](call = "chat" =>
            /\ \A e, f \in 1..Len(failover_events) :
                   e < f => failover_events[e].instance_name
                                <= failover_events[f].instance_name
            /\ \A m, n \in 1..Len(attempts) :
                   m < n => attempts[m].inst < attempts[n].inst
            /\ {failover_events[e].instance_name :
                    e \in {x \in 1..Len(failover_events) :
                              IsAttemptEvent(failover_events[x])}}
                 = {attempts[m].inst : m \in 1..Len(attempts)}
            /\ ~stream =>
                   LET tried == SelectSeq(failover_events, IsAttemptEvent)
                   IN  /\ Len(tried) = Len(attempts)
                       /\ \A m \in 1..Len(tried) :
                              tried[m].instance_name = attempts[m].inst)

\* C26 witness: a streaming call is over whose log names three instances,
\* the second of them skipped.
C26_Witness ==
    /\ call = "chat"
    /\ stream
    /\ pc = "done"
    /\ Len(failover_events) >= 3
    /\ failover_events[1].instance_name = 1
    /\ \E e \in 1..Len(failover_events) : failover_events[e] = SkippedEvent(2)
    /\ failover_events[Len(failover_events)] = SuccessEvent(3)
    /\ attempts = <<[inst |-> 1, ok |-> TRUE], [inst |-> 3, ok |-> TRUE]>>

\* C27: a CallRecord exists only once the call is over; a streaming call has
\* none while the consumer holds the unfinished handle; and the success
\* record of a streaming call exists only after the router's generator has
\* ended, every chunk the adapter produced having been delivered.
C27_NoRecordBeforeOutcome ==
    call = "chat" =>
        /\ logs # <<>> => pc = "done"
        /\ caller_outcome.kind \in {"none", "handle"} => logs = <<>>
        /\ \A k \in 1..Len(logs) :
               (stream /\ logs[k].status = "success") =>
                   /\ router_outcome.kind = "stream_end"
                   /\ caller_outcome.kind = "stream_end"
                   /\ \A n \in 1..produced :
                          \E j \in 1..Len(delivered) :
                              delivered[j] =
                                  [inst |-> router_outcome.instance, seq |-> n]

\* C27 witness: a streaming call delivered all its chunks and then its
\* record was persisted.
C27_Witness ==
    /\ call = "chat"
    /\ stream
    /\ pc = "done"
    /\ Len(delivered) = MaxChunks
    /\ Len(logs) = 1
    /\ logs[1].status = "success"

\* C28: after the consumer abandoned a streaming chat call no CallRecord of
\* status failure exists for the call, and the consumer was given no error.
C28_AbandonNotAFailure ==
    caller_outcome.kind = "abandoned" =>
        /\ \A k \in 1..Len(logs) : logs[k].status # "failure"
        /\ caller_outcome.error = NoError
        /\ handled = NoError

\* C28 witness: the consumer took one chunk of the first instance's stream
\* and then abandoned the call.
C28_Witness ==
    /\ caller_outcome.kind = "abandoned"
    /\ pc = "done"
    /\ delivered = <<[inst |-> 1, seq |-> 1]>>
    /\ produced < MaxChunks

\* C29 (as claimed): every success CallRecord carries the id of the model
\* row of the instance that served the call.  (A model row is identified
\* with the instance name it was registered for.)
C29_SuccessRecordHasModelId ==
    \A k \in 1..Len(logs) :
        logs[k].status = "success" =>
            /\ ServedInstance \in models
            /\ logs[k].model_id = ServedInstance

\* C22: the second of two resolutions that are given the same messages, the
\* same retrieved documents per attempt and the same classifier and
\* evaluator answers takes, step by step, the route decisions of the first
\* (next node, classification, evaluation result, retry_count), and is over
\* after as many steps.
C22_SameRouteDecisions ==
    run = 2 =>
        /\ IsPrefix(decisions, trace)
        /\ IsPrefix(inputs, script)
        /\ node = "END" => (decisions = trace /\ inputs = script)

\* C22 witness: the second resolution is over after a retry and a second
\* retrieval that found documents, like the first.
C22_Witness ==
    /\ run = 2
    /\ node = "END"
    /\ Len(trace) = 7
    /\ decisions = trace
    /\ trace[3].evaluation_result = "rewrite"
    /\ script[5].documents # <<>>

\* C30 (as claimed): whatever the interleaving of concurrent completions, the
\* table models has at most one row for an instance name.
C30_OneRowPerInstance ==
    \A i \in Instances :
        Cardinality({r \in model_rows : r.instance_name = i}) <= 1

\* C23: in a WebSocket turn, after a token send that failed because the
\* client had disconnected no token and no end marker is sent, and no
\* exception leaves the send callback.
C23_NoSendAfterDisconnect ==
    /\ \A k, j \in 1..Len(sends) :
           (/\ k < j
            /\ sends[k] = [type |-> "token", outcome |-> "disconnect"])
               => sends[j].type \notin {"token", "end"}
    /\ ~callback_raised

\* C23 witness: the second token send failed on the disconnect, the graph
\* called the callback once more, and the turn is over.
C23_Witness ==
    /\ ws_pc = "done"
    /\ callback_calls = MaxTokens
    /\ sends = <<[type |-> "start", outcome |-> "ok"],
                 [type |-> "token", outcome |-> "ok"],
                 [type |-> "token", outcome |-> "disconnect"]>>

----------------------------------------------------------------------------
\* Properties of single decisions of a resolution, read from its histories:
\* inputs[k] is what the k-th node was given, decisions[k] what followed it.

\* The evaluations of retrieved documents: the steps k at which
\* rag_evaluation_node ran on the non-empty result of the retrieval before.
DocumentEvaluations ==
    {k \in 2..Len(inputs) :
        /\ inputs[k].node = "rag_evaluation"
        /\ inputs[k - 1].node = "knowledge_base"
        /\ inputs[k - 1].documents # <<>>}

\* The decision at step k is a pass: on to generation, retry_count as before.
IsPass(k) ==
    /\ decisions[k].evaluation_result = "pass"
    /\ decisions[k].next = "llm_generate"
    /\ decisions[k].retry_count = decisions[k - 1].retry_count

\* The decision at step k is a rewrite: back to classification, retry_count
\* one more than before.
IsRewrite(k) ==
    /\ decisions[k].evaluation_result = "rewrite"
    /\ decisions[k].next = "query_classify"
    /\ decisions[k].retry_count = decisions[k - 1].retry_count + 1

\* The quality of the documents is above 0.6.
ScoreAbove06(scores) == 10 * QualityNum(scores) > 6 * QualityDen(scores)

\* The numeric fallback at step k: pass above 0.6, else rewrite while
\* retry_count is below MAX_RETRY, else pass.
ThresholdDecides(k) ==
    IF ScoreAbove06(inputs[k - 1].documents) THEN IsPass(k)
    ELSE IF decisions[k - 1].retry_count < MAX_RETRY THEN IsRewrite(k)
    ELSE IsPass(k)

\* C32: when the classification call raised or its answer was not JSON, the
\* classification is knowledge_base and the next node is knowledge_base.
C32_ClassifyFailureToKnowledgeBase ==
    \A k \in 1..Len(inputs) :
        (/\ inputs[k].node = "query_classify"
         /\ inputs[k].response \in {"raise", "bad_json"})
            => /\ decisions[k].query_classification = "knowledge_base"
               /\ decisions[k].next = "knowledge_base"

\* C32 witness: the classification call raised, and the knowledge base was
\* searched next.
C32_Witness ==
    /\ Len(inputs) >= 2
    /\ inputs[1].node = "query_classify"
    /\ inputs[1].response = "raise"
    /\ inputs[2].node = "knowledge_base"
    /\ path = <<"query_classify", "knowledge_base">>

\* C33 (as claimed): a turn with a user query goes from classification to
\* the end node only when the classifier answered with the label end.
C33_EndOnlyOnEndLabel ==
    \A k \in 1..Len(inputs) :
        (/\ inputs[k].node = "query_classify"
         /\ decisions[k].next = "end")
            => inputs[k].response = "end"

\* C34: on documents and a parseable verdict: pass is a pass; rewrite below
\* MAX_RETRY is a rewrite; rewrite at MAX_RETRY or above is a pass.
C34_VerdictDecides ==
    \A k \in DocumentEvaluations :
        /\ inputs[k].response = "pass" => IsPass(k)
        /\ inputs[k].response = "rewrite" =>
               IF decisions[k - 1].retry_count < MAX_RETRY
                 THEN IsRewrite(k)
                 ELSE IsPass(k)

\* C34 witness: the evaluator said rewrite twice and the retries followed;
\* its third rewrite was a forced pass.
C34_Witness ==
    /\ Len(inputs) = 9
    /\ \A k \in {3, 6, 9} : k \in DocumentEvaluations /\ inputs[k].response = "rewrite"
    /\ IsRewrite(3)
    /\ IsRewrite(6)
    /\ IsPass(9)
    /\ decisions[9].retry_count = MAX_RETRY

\* C35: on documents and an evaluator call that raised, the numeric threshold
\* decides.
C35_EvaluatorFailureThreshold ==
    \A k \in DocumentEvaluations :
        inputs[k].response = "raise" => ThresholdDecides(k)

\* C35 witness: the evaluator call raised twice; the first documents were
\* below the threshold and a rewrite followed, the second above it.
C35_Witness ==
    /\ Len(inputs) = 6
    /\ \A k \in {3, 6} : k \in DocumentEvaluations /\ inputs[k].response = "raise"
    /\ ~ScoreAbove06(inputs[2].documents)
    /\ IsRewrite(3)
    /\ ScoreAbove06(inputs[5].documents)
    /\ IsPass(6)

\* C36 (as claimed): on documents and a verdict that is not JSON, the numeric
\* threshold decides as it does when the evaluator call raised.
C36_UnparseableVerdictThreshold ==
    \A k \in DocumentEvaluations :
        inputs[k].response = "bad_json" => ThresholdDecides(k)

\* C39 (as claimed): the score of no documents is 0, and the score of
\* documents with scores in [0, 1], in any order, lies in [0, 1].
C39_QualityInUnitInterval ==
    quality_score.done =>
        /\ quality_docs = <<>> => quality_score.num = 0
        /\ 0 <= quality_score.num
        /\ quality_score.num <= quality_score.den

\* C38 (as claimed): a save that returned True inserted its row, and between
\* saves the message_count of the session's row is the number of stored
\* turns.
C38_SaveResultMatchesInsert ==
    /\ \A k \in 1..Len(saves) : saves[k].returned => saves[k].inserted
    /\ (session_exists /\ mem_pc = "ready") => message_count = Len(stored_turns)

\* The instances a call invoked an adapter of.
Attempted(c) == {c_attempts[c][k] : k \in 1..Len(c_attempts[c])}

\* C31: whatever the interleaving of concurrent chat calls, a call's failover
\* log has one skipped event for each instance its own loop skipped and
\* otherwise only events of instances it attempted itself, no more than two
\* for an attempt, and its stream metadata names an instance it attempted.
C31_CallScopedLogAndMetadata ==
    \A c \in Calls :
        /\ \A k \in 1..Len(c_events[c]) :
               IF c_events[c][k].status = "skipped"
                 THEN /\ c_events[c][k].instance_name < c_idx[c]
                      /\ c_events[c][k].instance_name \notin shared_adapters
                 ELSE c_events[c][k].instance_name \in Attempted(c)
        /\ Len(c_events[c]) <= (c_idx[c] - 1) + Len(c_attempts[c])
        /\ c_metadata[c] # None => c_metadata[c] \in Attempted(c)

\* C31 witness: two calls ran interleaved; the first failed over from
\* instance 1 to instance 2 mid-stream, the second was served by instance 1.
C31_Witness ==
    /\ c_pc[1] = "done"
    /\ c_pc[2] = "done"
    /\ c_stream[1]
    /\ c_events[1] = <<SuccessEvent(1), FailedEvent(1), SuccessEvent(2)>>
    /\ c_metadata[1] = 2
    /\ c_events[2] = <<SuccessEvent(1)>>

\* C37: in a WebSocket turn whose connection stays open, an end marker that
\* was sent is preceded by at least one token message sent after the start
\* marker, so that a reply has reached the client as tokens.
C37_ReplySentAsTokens ==
    \A j \in 1..Len(sends) :
        (/\ connected
         /\ sends[j] = [type |-> "end", outcome |-> "ok"])
            => \E s, k \in 1..Len(sends) :
                   /\ s < k
                   /\ k < j
                   /\ sends[s] = [type |-> "start", outcome |-> "ok"]
                   /\ sends[k] = [type |-> "token", outcome |-> "ok"]
====
